---- MODULE Spec2Model ----
(***************************************************************************)
(* Job control and scoped environment core of the shell.                   *)
(*                                                                         *)
(*   job.cpp   job-id allocator, job store (reaper and waiters)            *)
(*   env.cpp   scoped variable stack, universal layer, export flag         *)
(*                                                                         *)
(* Every region of code that runs under one mutex is one action; a         *)
(* blocking call made with the mutex released separates two actions.       *)
(***************************************************************************)
EXTENDS Integers, Sequences, FiniteSets, TLC

(***************************************************************************)
(* Bounds of the model.                                                    *)
(***************************************************************************)
\* number of job owners (live job_t objects) that acquire and release ids
MaxJobs == 4

Callers == 1..MaxJobs

\* the principal parser and one child parser, each on its own thread and with
\* its own job list
Parsers == {1, 2}

\* number of processes over a run, and so of children forked; pids are
\* 1..MaxPids
MaxPids == 2

Pids == 1..MaxPids

\* number of reaper tasks the thread pool can hold at once
MaxReapers == 2

\* the nodes of the environment stack, the global one included
MaxNodes == 3

\* the file mode creation mask the shell starts with, 022
InitialUmask == 2 * 8 + 2

\* the environment calls one behaviour makes
MaxCalls == 4

\* the length of the strings of digits given to umask
MaxUmaskLen == 3

\* timeout_usec arguments tried: wait forever, poll, wait with a deadline
Timeouts == {-1, 0, 1}


VARIABLES
    \* job.cpp:25  std::vector<bool> consumed_job_ids (slot i is job id i)
    consumed_job_ids,
    \* proc.h job_t::job_id of each live job_t; 0 when the owner has no job
    job_id,
    \* the last allocator call and its result
    job_last,
    \* job.h:296  job_store_t::needs_waitpid_gen_count
    needs_waitpid_gen_count,
    \* job.h:297  job_store_t::waitpid_thread_running
    waitpid_thread_running,
    \* job.h:300  job_store_t::status_map : pid -> [status, returned];
    \* returned tells whether some call has already returned this entry
    status_map,
    \* the kernel's view of each child: "none" (not forked), "running",
    \* "zombie" (terminated, not yet reported by waitpid), "reaped"
    child,
    \* the running background_do_wait tasks: [pc, prewait_gen_count, pid,
    \* status, err]
    reapers,
    \* parser_t::my_job_list of each parser: a sequence of jobs, a job being
    \* the sequence of the pids of its processes (0: not forked)
    jobs,
    \* where the thread of each parser is: "idle", "forked" (between fork
    \* and child_process_spawned), "cond_wait", "cond_timedwait", "woken"
    \* (the wait returned 0, the lock is not yet retaken), "returned"
    \* (wait_for_job_in_parser has returned to reap_job_and_apply_exit_status)
    ppc,
    \* timeout_usec of the wait_for_job_in_parser call a parser is in
    wait_timeout,
    \* what the wait_for_job_in_parser call of a parser has returned
    wait_result,
    \* the env_node_t objects of the main stack, the global node first; a node
    \* is [env, next, new_scope, exportv] and next is an index, 0 for null
    nodes,
    \* env_stack_t::top, an index into nodes
    top,
    \* the universal variable table behind uvars(): name -> [val, exportv]
    uvars,
    \* env.cpp:222  has_changed_exported
    has_changed_exported,
    \* the file mode creation mask of the process (umask(2))
    process_umask,
    \* TRUE once the main thread has locked s_env_lock while holding it
    env_deadlocked,
    \* env_stack_t::export_array, the strings key=value
    export_array,
    \* the last environment call: [op, key, returned, ret, fired, locked];
    \* fired tells whether the call itself fired a VARIABLE event, locked
    \* whether it held s_env_lock while the event ran
    env_last,
    \* the arguments of the last set call, kept by the specifications that
    \* relate results to arguments
    env_call,
    \* the lookups as they were at the last push of a new scope that only
    \* local assignments have followed, with the phase of that sequence
    scope_snapshot,
    \* the environment calls made so far
    env_calls,
    \* the env_node_t objects the stacks of stacks share: [next, new_scope],
    \* the global node first; their variable tables stay empty
    stack_nodes,
    \* the env_stack_t objects, the main stack first: [top, boundary], both
    \* indices into stack_nodes, boundary 0 for the null reference
    stacks,
    \* the last call on one of these stacks: [op, stack, outcome]
    stack_last,
    \* the string of environ that env_init imports: [key, eql, val], eql
    \* telling whether the string holds an equals sign
    environ,
    \* parser_t::my_job_list of the principal parser with the state of each
    \* job_t: [job_id, pgid, flags, buffered, procs]; procs is the chain of
    \* process_t: [pid, completed, stopped, status]
    job_list,
    \* the kernel's view of each child of the shell: "none" (not forked),
    \* "running", "stopped", or "reaped" (ended and waited for)
    kernel,
    \* proc.h is_interactive_session
    is_interactive_session,
    \* where the main thread is: [pc, job]; pc is "idle", "loop" (at the top
    \* of the foreground loop of job_continue for job), "cond_wait" (blocked
    \* in that loop) or "killed" (the shell has signalled itself)
    fg_loop,
    \* the last call of the main thread into proc.cpp or job.cpp:
    \* [op, sig, sent, trace, sel, got, blocked]
    proc_last,
    \* the blocks of the principal parser from block_stack_top down its
    \* parent links, the outermost first: [type, skip, wants_pop_env], with
    \* env_before, the top of the scope stack when the block was pushed
    block_stack,
    \* parser_t::cancellation_requested of the principal parser
    cancellation_requested,
    \* the calls of eval_block_node the main thread is inside, the outermost
    \* first: for each the number of blocks it found on entry
    eval_frames,
    \* the last call of a thread into the parser:
    \* [op, thread, ret, type, flag]
    parser_last,
    \* the child parser that evaluates on a background thread:
    \* [state, cancellation_requested, shared, job_list]; shared counts the
    \* blocks of the parent its block_stack_top pointed to when it was copied
    child_parser,
    \* the static locked of job_reap (proc.cpp:505)
    locked,
    \* where each thread is in job_reap, and the interactive argument of its
    \* call: pc is "out", "read" (it has read locked clear and not yet set
    \* it) or "in" (it has set locked and runs the body)
    reap_pc,
    \* the foreground process group of the terminal, set by tcsetpgrp
    tty_pgrp

jobid_vars == <<consumed_job_ids, job_id, job_last>>

store_vars == <<needs_waitpid_gen_count, waitpid_thread_running, status_map,
                child, reapers, jobs, ppc, wait_timeout, wait_result>>

env_vars == <<nodes, top, uvars, has_changed_exported, process_umask,
              env_deadlocked, export_array, env_last>>

harness_vars == <<env_call, scope_snapshot, env_calls>>

stack_vars == <<stack_nodes, stacks, stack_last>>

\* the variables the job and environment calls above never touch
proc_vars == <<job_list, kernel, is_interactive_session, fg_loop, proc_last>>

parser_vars == <<block_stack, cancellation_requested, eval_frames,
                 parser_last, child_parser, locked, reap_pc>>

later_vars == <<stack_vars, environ, proc_vars, parser_vars, tty_pgrp>>

vars == <<consumed_job_ids, job_id, job_last,
          needs_waitpid_gen_count, waitpid_thread_running, status_map,
          child, reapers, jobs, ppc, wait_timeout, wait_result,
          nodes, top, uvars, has_changed_exported, process_umask,
          env_deadlocked, export_array, env_last, env_call, scope_snapshot, env_calls,
          stack_nodes, stacks, stack_last, environ,
          job_list, kernel, is_interactive_session, fg_loop, proc_last,
          block_stack, cancellation_requested, eval_frames, parser_last,
          child_parser, locked, reap_pc, tty_pgrp>>

(***************************************************************************)
(* Job-id allocator, job.cpp:23-65                                         *)
(***************************************************************************)
\* std::find(begin, end, false): index of the first false slot, 0 for end()
FindFirstFalse(v) ==
    IF \E i \in 1..Len(v) : ~v[i]
    THEN CHOOSE i \in 1..Len(v) : ~v[i] /\ \A j \in 1..(i-1) : v[j]
    ELSE 0

\* the loop of release_job_id: index of the last true slot, 0 when there is
\* none (count wraps to SIZE_MAX and count + 1 is 0)
LastTrue(v) ==
    IF \E i \in 1..Len(v) : v[i]
    THEN CHOOSE i \in 1..Len(v) : v[i] /\ \A j \in (i+1)..Len(v) : ~v[j]
    ELSE 0

\* a faulty allocator that never reuses a freed slot
AcquireResult_NoReuse(v) == Len(v) + 1

\* the value acquire_job_id returns for the vector v
AcquireResult(v) ==
    IF FindFirstFalse(v) # 0 THEN FindFirstFalse(v) ELSE Len(v) + 1

\* the vector acquire_job_id leaves behind
AcquireVector(v) ==
    IF FindFirstFalse(v) # 0
    THEN [v EXCEPT ![FindFirstFalse(v)] = TRUE]
    ELSE Append(v, TRUE)

\* the vector release_job_id leaves behind
ReleaseVector(v, jid) ==
    LET cleared == [v EXCEPT ![jid] = FALSE]
    IN  SubSeq(cleared, 1, LastTrue(cleared))

\* job_t::job_t : a new job takes an id
acquire_job_id(c) ==
    /\ job_id[c] = 0
    /\ job_id' = [job_id EXCEPT ![c] = AcquireResult(consumed_job_ids)]
    /\ consumed_job_ids' = AcquireVector(consumed_job_ids)
    /\ job_last' = [op |-> "acquire", jid |-> AcquireResult(consumed_job_ids)]
    /\ UNCHANGED <<store_vars, env_vars, harness_vars, later_vars>>

\* job_t::~job_t : the job gives its id back; the asserts of release_job_id
\* (jid > 0, slot in range, slot consumed) are the guard
release_job_id(c) ==
    /\ job_id[c] > 0
    /\ job_id[c] <= Len(consumed_job_ids)
    /\ consumed_job_ids[job_id[c]]
    /\ consumed_job_ids' = ReleaseVector(consumed_job_ids, job_id[c])
    /\ job_id' = [job_id EXCEPT ![c] = 0]
    /\ job_last' = [op |-> "release", jid |-> job_id[c]]
    /\ UNCHANGED <<store_vars, env_vars, harness_vars, later_vars>>

(***************************************************************************)
(* Job store, job.cpp:168-370.  job_store_t::lock is held over each action *)
(* below; it is released only around waitpid and inside the condition      *)
(* variable waits, which is where one action ends and the next begins.     *)
(***************************************************************************)
\* std::map::operator[]= and std::map::erase on status_map
MapPut(m, pid, v) == [q \in (DOMAIN m) \cup {pid} |-> IF q = pid THEN v ELSE m[q]]
MapErase(m, pid) == [q \in (DOMAIN m) \ {pid} |-> m[q]]
EmptyMap == [q \in {} |-> 0]

\* the pids of the processes of a job list, in the order the two nested
\* loops of wait_for_job_in_parser visit them
RECURSIVE Flatten(_)
Flatten(js) == IF js = <<>> THEN <<>> ELSE Head(js) \o Flatten(Tail(js))

ParserPids(p) == {Flatten(jobs[p])[i] : i \in 1..Len(Flatten(jobs[p]))} \ {0}

\* a scan that looks at the processes of every parser
ScanResult_AnyParser(js, m) ==
    IF DOMAIN m # {} THEN CHOOSE q \in DOMAIN m : \A r \in DOMAIN m : q <= r
    ELSE -1

\* job.cpp:311-332: the first process, in list order, with pid > 0 whose pid is
\* in the map; -1 (the initial result_pid) if there is none
ScanResult(js, m) ==
    LET ps == Flatten(js)
        hits == {i \in 1..Len(ps) : ps[i] > 0 /\ ps[i] \in DOMAIN m}
    IN  IF hits = {} THEN -1
        ELSE ps[CHOOSE i \in hits : \A k \in hits : i <= k]

\* a claim that leaves the entry in the map
MapAfterClaim_NoErase(m, pid) == m

\* job.cpp:326: the claimed entry is erased
MapAfterClaim(m, pid) == MapErase(m, pid)

\* an entry that is still in the map after it was returned is marked
MarkReturned(m, pid) ==
    IF pid \in DOMAIN m THEN [m EXCEPT ![pid].returned = TRUE] ELSE m

\* pthread_cond_broadcast(&status_map_broadcaster): every thread blocked on
\* the condition variable becomes runnable
Broadcast(pc) ==
    [p \in Parsers |->
        IF pc[p] \in {"cond_wait", "cond_timedwait"} THEN "woken" ELSE pc[p]]

NoResult == [got |-> FALSE, pid |-> 0, status |-> "none", blocked |-> FALSE,
             own |-> FALSE, dup |-> FALSE]

\* job.cpp:360-369: failure, with the out-parameters set to -1 and 0
Failure(blocked) == [NoResult EXCEPT !.pid = -1, !.blocked = blocked]

\* a wait that treats a negative timeout as a poll
WaitMode_NegativePolls(timeout) ==
    IF timeout <= 0 THEN "poll" ELSE "deadline"

\* a wait that sleeps without a deadline when asked to poll
WaitMode_ZeroWaits(timeout) ==
    IF timeout <= 0 THEN "forever" ELSE "deadline"

\* job.cpp:336-356: what the loop does when the scan found nothing
WaitMode(timeout) ==
    IF timeout = 0 THEN "poll"
    ELSE IF timeout < 0 THEN "forever"
    ELSE "deadline"

\* job.cpp:309-358: the while loop of wait_for_job_in_parser from its top, run
\* with the lock held: scan, then claim, give up or go to sleep.  blocked
\* tells whether this call has already slept on the condition variable.
ScanLoop(p, timeout, blocked) ==
    LET pid == ScanResult(jobs[p], status_map) IN
    IF pid # -1
    THEN /\ status_map' = MarkReturned(MapAfterClaim(status_map, pid), pid)
         /\ wait_result' = [wait_result EXCEPT ![p] =
                [got |-> TRUE, pid |-> pid, status |-> status_map[pid].status,
                 blocked |-> blocked, own |-> pid \in ParserPids(p),
                 dup |-> status_map[pid].returned]]
         /\ ppc' = [ppc EXCEPT ![p] = "returned"]
    ELSE /\ UNCHANGED status_map
         /\ IF WaitMode(timeout) = "poll"
            THEN /\ ppc' = [ppc EXCEPT ![p] = "returned"]
                 /\ wait_result' = [wait_result EXCEPT ![p] = Failure(blocked)]
            ELSE /\ ppc' = [ppc EXCEPT ![p] =
                        IF WaitMode(timeout) = "forever" THEN "cond_wait"
                                                         ELSE "cond_timedwait"]
                 /\ UNCHANGED wait_result

\* job.cpp:288-308 and the first pass of the loop
wait_for_job_in_parser(p, timeout) ==
    /\ ppc[p] = "idle"
    /\ wait_timeout' = [wait_timeout EXCEPT ![p] = timeout]
    /\ IF ~waitpid_thread_running /\ DOMAIN status_map = {}
       THEN \* return false before the out-parameters are written: the
            \* caller's pid and status keep the 0 it initialised them to
            /\ wait_result' = [wait_result EXCEPT ![p] = NoResult]
            /\ ppc' = [ppc EXCEPT ![p] = "returned"]
            /\ UNCHANGED status_map
       ELSE ScanLoop(p, timeout, FALSE)
    /\ UNCHANGED <<needs_waitpid_gen_count, waitpid_thread_running,
                   child, reapers, jobs>>
    /\ UNCHANGED <<jobid_vars, env_vars, harness_vars, later_vars>>

\* job.cpp:345, 349: pthread_cond_wait or pthread_cond_timedwait returned 0;
\* the loop goes round with the lock held again
wait_woken(p) ==
    /\ ppc[p] = "woken"
    /\ ScanLoop(p, wait_timeout[p], TRUE)
    /\ UNCHANGED <<needs_waitpid_gen_count, waitpid_thread_running,
                   child, reapers, jobs, wait_timeout>>
    /\ UNCHANGED <<jobid_vars, env_vars, harness_vars, later_vars>>

\* job.cpp:349-355: pthread_cond_timedwait returned ETIMEDOUT
wait_timed_out(p) ==
    /\ ppc[p] = "cond_timedwait"
    /\ ppc' = [ppc EXCEPT ![p] = "returned"]
    /\ wait_result' = [wait_result EXCEPT ![p] = Failure(TRUE)]
    /\ UNCHANGED <<needs_waitpid_gen_count, waitpid_thread_running,
                   status_map, child, reapers, jobs, wait_timeout>>
    /\ UNCHANGED <<jobid_vars, env_vars, harness_vars, later_vars>>

\* POSIX lets a condition variable wait return without a broadcast
cond_spurious_wakeup(p) ==
    /\ ppc[p] \in {"cond_wait", "cond_timedwait"}
    /\ ppc' = [ppc EXCEPT ![p] = "woken"]
    /\ UNCHANGED <<needs_waitpid_gen_count, waitpid_thread_running,
                   status_map, child, reapers, jobs, wait_timeout, wait_result>>
    /\ UNCHANGED <<jobid_vars, env_vars, harness_vars, later_vars>>

\* proc.cpp:277-288 reap_job_and_apply_exit_status: the caller takes the result
reap_job_and_apply_exit_status(p) ==
    /\ ppc[p] = "returned"
    /\ ppc' = [ppc EXCEPT ![p] = "idle"]
    /\ wait_timeout' = [wait_timeout EXCEPT ![p] = 0]
    /\ wait_result' = [wait_result EXCEPT ![p] = NoResult]
    /\ UNCHANGED <<needs_waitpid_gen_count, waitpid_thread_running,
                   status_map, child, reapers, jobs>>
    /\ UNCHANGED <<jobid_vars, env_vars, harness_vars, later_vars>>

\* waitpid(-1, &status, WUNTRACED) has something to report for these
Reportable == {q \in Pids : child[q] = "zombie"}

\* the children waitpid has yet to account for
Unwaited == {q \in Pids : child[q] \in {"running", "zombie"}}

RemoveAt(seq, i) == SubSeq(seq, 1, i - 1) \o SubSeq(seq, i + 1, Len(seq))

\* job.cpp:211-212: the blocking waitpid call of reaper task i, made with the
\* lock released.  It reports a terminated child, fails with ECHILD when there
\* is no child left, and otherwise blocks until a child changes state or a
\* signal interrupts it (EINTR).  The status is opaque to the store; the
\* children of this model terminate and are not stopped.
reaper_waitpid(i) ==
    /\ i \in 1..Len(reapers)
    /\ reapers[i].pc = "waitpid"
    /\ \/ \E q \in Reportable :
             /\ child' = [child EXCEPT ![q] = "reaped"]
             /\ reapers' = [reapers EXCEPT ![i] =
                    [pc |-> "got", prewait_gen_count |-> @.prewait_gen_count,
                     pid |-> q,
                     status |-> "exited",
                     err |-> "none"]]
       \/ /\ Unwaited = {}
          /\ reapers' = [reapers EXCEPT ![i] =
                 [pc |-> "got", prewait_gen_count |-> @.prewait_gen_count,
                  pid |-> -1, status |-> "none", err |-> "ECHILD"]]
          /\ UNCHANGED child
       \/ /\ Unwaited # {}
          /\ Reportable = {}
          /\ reapers' = [reapers EXCEPT ![i] =
                 [pc |-> "got", prewait_gen_count |-> @.prewait_gen_count,
                  pid |-> -1, status |-> "none", err |-> "EINTR"]]
          /\ UNCHANGED child
    /\ UNCHANGED <<needs_waitpid_gen_count, waitpid_thread_running,
                   status_map, jobs, ppc, wait_timeout, wait_result>>
    /\ UNCHANGED <<jobid_vars, env_vars, harness_vars, later_vars>>

\* a reaper that leaves its loop on any ECHILD
ReaperExits_AnyEchild(r) ==
    r.pc = "got" /\ r.pid < 0 /\ r.err = "ECHILD"

\* job.cpp:230: does the reaper leave its loop after this waitpid result?
ReaperExits(r) ==
    r.pc = "got" /\ r.pid < 0 /\ r.err = "ECHILD"
        /\ r.prewait_gen_count = needs_waitpid_gen_count

\* job.cpp:198-208 and 215-250: reaper task i takes the lock (on starting, or
\* after waitpid), records the result of waitpid, and either leaves the loop
\* and clears waitpid_thread_running, or goes round: asserts that
\* waitpid_thread_running is set, reads the generation count and unlocks.
reaper_locked(i) ==
    /\ i \in 1..Len(reapers)
    /\ reapers[i].pc \in {"start", "got"}
    /\ LET r == reapers[i]
           reaped == r.pc = "got" /\ r.pid >= 0
           interrupted == r.pc = "got" /\ r.pid < 0 /\ r.err = "EINTR"
       IN
       /\ status_map' =
              IF reaped
              THEN MapPut(status_map, r.pid,
                          [status |-> r.status, returned |-> FALSE])
              ELSE status_map
       /\ ppc' = IF reaped \/ interrupted THEN Broadcast(ppc) ELSE ppc
       /\ IF ReaperExits(r)
          THEN /\ waitpid_thread_running' = FALSE
               /\ reapers' = RemoveAt(reapers, i)
          ELSE /\ UNCHANGED waitpid_thread_running
               /\ reapers' = [reapers EXCEPT ![i] =
                      [pc |-> IF waitpid_thread_running THEN "waitpid"
                                                        ELSE "assert_failed",
                       prewait_gen_count |-> needs_waitpid_gen_count,
                       pid |-> -1, status |-> "none", err |-> "none"]]
    /\ UNCHANGED <<needs_waitpid_gen_count, child, jobs,
                   wait_timeout, wait_result>>
    /\ UNCHANGED <<jobid_vars, env_vars, harness_vars, later_vars>>

\* the pid the next fork returns: pids are handed out in order, none twice
NextPid == Cardinality({q \in Pids : child[q] # "none"}) + 1

\* number of processes in the job lists of all parsers
NumProcesses ==
    LET RECURSIVE Sum(_)
        Sum(S) == IF S = {} THEN 0
                  ELSE LET p == CHOOSE x \in S : TRUE
                       IN  Len(Flatten(jobs[p])) + Sum(S \ {p})
    IN  Sum(Parsers)

\* a job list with one more process, in a new job or at the end of the last
AddProcess(js, pid, newjob) ==
    IF newjob \/ js = <<>> THEN Append(js, <<pid>>)
    ELSE [js EXCEPT ![Len(js)] = Append(@, pid)]

\* The thread of parser p forks a child for a process of one of its jobs and
\* stores the pid in the process (job.h:289-292, client responsibility 1)
fork_child(p, newjob) ==
    /\ ppc[p] = "idle"
    /\ NextPid <= MaxPids
    /\ NumProcesses < MaxPids
    /\ child' = [child EXCEPT ![NextPid] = "running"]
    /\ jobs' = [jobs EXCEPT ![p] = AddProcess(@, NextPid, newjob)]
    /\ ppc' = [ppc EXCEPT ![p] = "forked"]
    /\ UNCHANGED <<needs_waitpid_gen_count, waitpid_thread_running,
                   status_map, reapers, wait_timeout, wait_result>>
    /\ UNCHANGED <<jobid_vars, env_vars, harness_vars, later_vars>>

\* A process that runs inside the shell (builtin, function, block) joins a job
\* of parser p; its pid stays 0 (proc.cpp:298, process_t::process_t)
add_internal_process(p, newjob) ==
    /\ ppc[p] = "idle"
    /\ NumProcesses < MaxPids
    /\ jobs' = [jobs EXCEPT ![p] = AddProcess(@, 0, newjob)]
    /\ UNCHANGED <<needs_waitpid_gen_count, waitpid_thread_running,
                   status_map, child, reapers, ppc, wait_timeout, wait_result>>
    /\ UNCHANGED <<jobid_vars, env_vars, harness_vars, later_vars>>

\* an announcement that leaves the generation count as it is
BumpedGenCount_Kept(count) == count

\* job.cpp:261: uint32_t; with at most MaxPids increments the count stays
\* far from the value at which it wraps
BumpedGenCount(count) == count + 1

\* an announcement that starts a reaper whether or not one is running
StartsReaper_Always(running) == TRUE

\* job.cpp:265: the test under which child_process_spawned starts a reaper
StartsReaper(running) == ~running

\* job.cpp:255-271 (client responsibility 2)
child_process_spawned(p) ==
    /\ ppc[p] = "forked"
    /\ needs_waitpid_gen_count' = BumpedGenCount(needs_waitpid_gen_count)
    /\ IF StartsReaper(waitpid_thread_running)
       THEN /\ Len(reapers) < MaxReapers
            /\ waitpid_thread_running' = TRUE
            /\ reapers' = Append(reapers,
                   [pc |-> "start", prewait_gen_count |-> 0, pid |-> -1,
                    status |-> "none", err |-> "none"])
       ELSE UNCHANGED <<waitpid_thread_running, reapers>>
    /\ ppc' = [ppc EXCEPT ![p] = "idle"]
    /\ UNCHANGED <<status_map, child, jobs, wait_timeout, wait_result>>
    /\ UNCHANGED <<jobid_vars, env_vars, harness_vars, later_vars>>

\* a child exits or is killed
child_terminates(q) ==
    /\ child[q] = "running"
    /\ child' = [child EXCEPT ![q] = "zombie"]
    /\ UNCHANGED <<needs_waitpid_gen_count, waitpid_thread_running,
                   status_map, reapers, jobs, ppc, wait_timeout, wait_result>>
    /\ UNCHANGED <<jobid_vars, env_vars, harness_vars, later_vars>>

\* job.cpp:168 job_store_t::job_store_t, and parsers without jobs
(***************************************************************************)
(* Environment stack, env.cpp.  A string is a sequence of one-character    *)
(* strings, so that parsing and formatting act on characters.  Each action *)
(* is one call made by the main thread: s_env_lock is held by no other     *)
(* thread while the main thread is inside set, remove or pop.  The         *)
(* universal table has no other writer here, so a barrier brings no change *)
(* from outside and posts no callback.                                     *)
(***************************************************************************)

\* env.h:16-40  the mode flags
ENV_DEFAULT == 0
ENV_LOCAL == 1
ENV_EXPORT == 2
ENV_GLOBAL == 4
ENV_USER == 8
ENV_UNEXPORT == 16
ENV_UNIVERSAL == 32

\* env.h:46-52  the error codes of set
ENV_PERM == 1
ENV_SCOPE == 2
ENV_INVALID == 3

\* the largest value a mode can take: all six flags
AllFlags ==
    ENV_LOCAL + ENV_EXPORT + ENV_GLOBAL + ENV_USER + ENV_UNEXPORT + ENV_UNIVERSAL

\* var_mode & flag
HasFlag(mode, flag) == (mode \div flag) % 2 = 1

\* env.cpp:63  ENV_NULL, the one-character string 0x1d that stands for an
\* empty array
ENV_NULL == <<"\\x1d">>

\* a null pointer passed for val
NullVal == <<"null pointer">>

\* env.cpp:484-500, 589  the read-only names
env_read_only ==
    {"status", "history", "version", "_", "LINES", "COLUMNS", "PWD",
     "FISH_VERSION", "SHLVL"}

\* env.cpp:506-510  the electric names
env_electric == {"history", "status", "umask", "COLUMNS", "LINES"}

is_read_only(key) == key \in env_read_only

is_electric(key) == key \in env_electric

\* env_var_t: a string or the missing value
missing_var == [missing |-> TRUE, val |-> <<>>]

env_var(v) == [missing |-> FALSE, val |-> v]

\* ---- wcstol(val, &end, 8) ------------------------------------------------

OctalDigits == <<"0", "1", "2", "3", "4", "5", "6", "7">>

IsOctalDigit(c) == \E d \in 1..Len(OctalDigits) : OctalDigits[d] = c

DigitValue(c) == (CHOOSE d \in 1..Len(OctalDigits) : OctalDigits[d] = c) - 1

\* the first index from i on that holds no white space
RECURSIVE SkipSpace(_, _)
SkipSpace(s, i) ==
    IF i <= Len(s) /\ s[i] = " " THEN SkipSpace(s, i + 1) ELSE i

\* the first index from i on that holds no octal digit
RECURSIVE DigitsEnd(_, _)
DigitsEnd(s, i) ==
    IF i <= Len(s) /\ IsOctalDigit(s[i]) THEN DigitsEnd(s, i + 1) ELSE i

\* the value of the digits s[i..j-1], most significant first
RECURSIVE DigitsValue(_, _, _, _)
DigitsValue(s, i, j, acc) ==
    IF i >= j THEN acc
    ELSE DigitsValue(s, i + 1, j, acc * 8 + DigitValue(s[i]))

\* [value, end]: end is the index of the first character not converted,
\* and 1 (the start of the string) when no digit was converted.  The
\* strings here are too short to overflow a long, so errno stays 0.
wcstol8(s) ==
    LET i == SkipSpace(s, 1)
        signed == i <= Len(s) /\ s[i] \in {"+", "-"}
        negative == i <= Len(s) /\ s[i] = "-"
        d == IF signed THEN i + 1 ELSE i
        e == DigitsEnd(s, d)
        v == DigitsValue(s, d, e, 0)
    IN  IF e = d THEN [value |-> 0, end |-> 1]
        ELSE [value |-> IF negative THEN 0 - v ELSE v, end |-> e]

\* env.cpp:691-696  the test that guards umask(mask)
UmaskAccepts(val) ==
    /\ val # NullVal
    /\ Len(val) > 0
    /\ wcstol8(val).end > Len(val)
    /\ wcstol8(val).value <= 511
    /\ wcstol8(val).value >= 0

\* ---- format_string(L"0%0.3o", get_umask()) -------------------------------

RECURSIVE OctalString(_)
OctalString(n) ==
    IF n < 8 THEN <<OctalDigits[n + 1]>>
    ELSE OctalString(n \div 8) \o <<OctalDigits[(n % 8) + 1]>>

\* %0.3o: at least three digits, padded with zeros on the left
RECURSIVE PadZeros(_, _)
PadZeros(s, width) ==
    IF Len(s) >= width THEN s ELSE PadZeros(<<"0">> \o s, width)

FormatUmask_NoPadding(mask) == <<"0">> \o OctalString(mask)

FormatUmask(mask) == <<"0">> \o PadZeros(OctalString(mask), 3)

\* ---- path_make_canonical -------------------------------------------------

\* repeated slashes collapse to one
RECURSIVE CollapseSlashes(_)
CollapseSlashes(s) ==
    IF Len(s) < 2 THEN s
    ELSE IF s[1] = "/" /\ s[2] = "/" THEN CollapseSlashes(Tail(s))
    ELSE <<s[1]>> \o CollapseSlashes(Tail(s))

\* and a trailing slash goes, except from the root
path_make_canonical(s) ==
    LET c == CollapseSlashes(s)
    IN  IF Len(c) > 1 /\ c[Len(c)] = "/" THEN SubSeq(c, 1, Len(c) - 1) ELSE c

\* ---- the node stack ------------------------------------------------------

\* env.cpp:149  the global node is the first one made
GlobalNode == 1

\* env.cpp:113  env_node_t(is_new_scope, nxt)
env_node_t(is_new_scope, nxt) ==
    [env |-> EmptyMap, next |-> nxt, new_scope |-> is_new_scope,
     exportv |-> FALSE]

\* env.cpp:267-275
next_scope_IgnoresNewScope(scope) == nodes[scope].next

next_scope(scope) ==
    IF nodes[scope].new_scope THEN GlobalNode ELSE nodes[scope].next

\* env.cpp:228-250  find_entry, as a test
has_entry(n, key) == key \in DOMAIN nodes[n].env

\* env.cpp:633-646  the node that holds key, 0 for NULL
RECURSIVE get_node_from(_, _)
get_node_from(env, key) ==
    IF env = 0 THEN 0
    ELSE IF has_entry(env, key) THEN env
    ELSE get_node_from(next_scope(env), key)

get_node(key) == get_node_from(top, key)

\* the universal table: get, get_export
uvars_get(key) ==
    IF key \in DOMAIN uvars THEN env_var(uvars[key].val) ELSE missing_var

uvars_get_export(key) == key \in DOMAIN uvars /\ uvars[key].exportv

\* env.cpp:1034-1063  the nodes the loop of get looks at until it finds a
\* matching entry, in order
RECURSIVE GetPath(_, _, _)
GetPath(env, has_scope, search_global) ==
    IF env = 0 THEN <<>>
    ELSE <<env>> \o
         (IF has_scope
          THEN IF ~search_global \/ env = GlobalNode THEN <<>>
               ELSE GetPath(GlobalNode, has_scope, search_global)
          ELSE GetPath(next_scope(env), has_scope, search_global))

\* env.cpp:1042  does the entry of key in node n pass the export filter
EntryMatches_AnyEntry(n, key, search_exported, search_unexported) ==
    has_entry(n, key)

EntryMatches(n, key, search_exported, search_unexported) ==
    /\ has_entry(n, key)
    /\ IF nodes[n].env[key].exportv THEN search_exported
       ELSE search_unexported

\* env.cpp:987-1086
get(key, mode) ==
    LET has_scope == HasFlag(mode, ENV_LOCAL) \/ HasFlag(mode, ENV_GLOBAL)
                         \/ HasFlag(mode, ENV_UNIVERSAL)
        search_local == ~has_scope \/ HasFlag(mode, ENV_LOCAL)
        search_global == ~has_scope \/ HasFlag(mode, ENV_GLOBAL)
        search_universal == ~has_scope \/ HasFlag(mode, ENV_UNIVERSAL)
        search_exported ==
            HasFlag(mode, ENV_EXPORT) \/ ~HasFlag(mode, ENV_UNEXPORT)
        search_unexported ==
            HasFlag(mode, ENV_UNEXPORT) \/ ~HasFlag(mode, ENV_EXPORT)
        path == IF search_local \/ search_global
                THEN GetPath(IF search_local THEN top ELSE GlobalNode,
                             has_scope, search_global)
                ELSE <<>>
        hits == {i \in 1..Len(path) :
                    EntryMatches(path[i], key, search_exported,
                                 search_unexported)}
        first == CHOOSE i \in hits : \A j \in hits : i <= j
        found == nodes[path[first]].env[key].val
        uni == uvars_get(key)
    IN  IF is_electric(key) /\ ~search_global THEN missing_var
        ELSE IF key = "umask" THEN env_var(FormatUmask(process_umask))
        ELSE IF hits # {}
             THEN IF found = ENV_NULL THEN missing_var ELSE env_var(found)
        ELSE IF ~search_universal THEN missing_var
        ELSE IF uni.missing \/ uni.val = ENV_NULL THEN missing_var
        ELSE IF (IF uvars_get_export(key) THEN search_exported
                 ELSE search_unexported)
             THEN uni
        ELSE missing_var

\* env.cpp:1115-1138  the nodes the loop of exist looks at
RECURSIVE ExistPath(_, _, _)
ExistPath(env, has_scope, test_global) ==
    IF env = 0 THEN <<>>
    ELSE <<env>> \o
         (IF has_scope
          THEN IF ~test_global \/ env = GlobalNode THEN <<>>
               ELSE ExistPath(GlobalNode, has_scope, test_global)
          ELSE ExistPath(next_scope(env), has_scope, test_global))

\* env.cpp:1088-1155
exist(key, mode) ==
    LET has_scope == HasFlag(mode, ENV_LOCAL) \/ HasFlag(mode, ENV_GLOBAL)
                         \/ HasFlag(mode, ENV_UNIVERSAL)
        test_local == ~has_scope \/ HasFlag(mode, ENV_LOCAL)
        test_global == ~has_scope \/ HasFlag(mode, ENV_GLOBAL)
        test_universal == ~has_scope \/ HasFlag(mode, ENV_UNIVERSAL)
        test_exported ==
            HasFlag(mode, ENV_EXPORT) \/ ~HasFlag(mode, ENV_UNEXPORT)
        test_unexported ==
            HasFlag(mode, ENV_UNEXPORT) \/ ~HasFlag(mode, ENV_EXPORT)
        path == IF test_local \/ test_global
                THEN ExistPath(IF test_local THEN top ELSE GlobalNode,
                               has_scope, test_global)
                ELSE <<>>
        hits == {i \in 1..Len(path) : has_entry(path[i], key)}
        first == CHOOSE i \in hits : \A j \in hits : i <= j
    IN  IF is_electric(key) THEN test_global /\ test_unexported
        ELSE IF hits # {}
             THEN IF nodes[path[first]].env[key].exportv THEN test_exported
                  ELSE test_unexported
        ELSE IF test_universal /\ ~uvars_get(key).missing
             THEN IF uvars_get_export(key) THEN test_exported
                  ELSE test_unexported
        ELSE FALSE

\* env.cpp:890-921  the nodes try_remove looks at until it finds the key
RECURSIVE TryRemovePath(_, _)
TryRemovePath(n, var_mode) ==
    IF n = 0 THEN <<>>
    ELSE <<n>> \o
         (IF HasFlag(var_mode, ENV_LOCAL) THEN <<>>
          ELSE IF nodes[n].new_scope THEN TryRemovePath(GlobalNode, var_mode)
          ELSE TryRemovePath(nodes[n].next, var_mode))

\* env.cpp:890-921  the node try_remove erases key from, 0 if it finds none
try_remove(n, key, var_mode) ==
    LET path == TryRemovePath(n, var_mode)
        hits == {i \in 1..Len(path) : has_entry(path[i], key)}
    IN  IF hits = {} THEN 0
        ELSE path[CHOOSE i \in hits : \A j \in hits : i <= j]

\* env.cpp:1160-1173
RECURSIVE local_scope_exports(_)
local_scope_exports(n) ==
    IF n = GlobalNode THEN FALSE
    ELSE IF nodes[n].exportv THEN TRUE
    ELSE IF nodes[n].new_scope THEN FALSE
    ELSE local_scope_exports(nodes[n].next)

\* env.cpp:1287-1301  the non-global nodes get_names lists
RECURSIVE GetNamesLocalPath(_)
GetNamesLocalPath(n) ==
    IF n = 0 \/ n = GlobalNode THEN <<>>
    ELSE <<n>> \o
         (IF nodes[n].new_scope THEN <<>>
          ELSE GetNamesLocalPath(nodes[n].next))

\* env.cpp:1251-1266
add_key_to_string_set(envs, show_exported, show_unexported) ==
    {k \in DOMAIN envs :
        \/ envs[k].exportv /\ show_exported
        \/ ~envs[k].exportv /\ show_unexported}

\* env.cpp:1268-1320  the nodes get_names lists
GetNamesPath(flags) ==
    LET none == ~HasFlag(flags, ENV_LOCAL) /\ ~HasFlag(flags, ENV_GLOBAL)
                    /\ ~HasFlag(flags, ENV_UNIVERSAL)
    IN  (IF none \/ HasFlag(flags, ENV_LOCAL) THEN GetNamesLocalPath(top)
         ELSE <<>>)
        \o (IF none \/ HasFlag(flags, ENV_GLOBAL) THEN <<GlobalNode>>
            ELSE <<>>)

\* env.cpp:1268-1320  the names, as a set
get_names(flags) ==
    LET none == ~HasFlag(flags, ENV_LOCAL) /\ ~HasFlag(flags, ENV_GLOBAL)
                    /\ ~HasFlag(flags, ENV_UNIVERSAL)
        show_global == none \/ HasFlag(flags, ENV_GLOBAL)
        show_universal == none \/ HasFlag(flags, ENV_UNIVERSAL)
        show_exported ==
            HasFlag(flags, ENV_EXPORT) \/ ~HasFlag(flags, ENV_UNEXPORT)
        show_unexported ==
            HasFlag(flags, ENV_UNEXPORT) \/ ~HasFlag(flags, ENV_EXPORT)
        path == GetNamesPath(flags)
    IN  UNION {add_key_to_string_set(nodes[path[i]].env, show_exported,
                                     show_unexported) : i \in 1..Len(path)}
        \cup (IF show_global /\ show_unexported THEN env_electric ELSE {})
        \cup (IF show_universal
              THEN add_key_to_string_set(uvars, show_exported,
                                         show_unexported)
              ELSE {})

\* env.cpp:1326-1336  the nodes get_exported collects from, outermost first
RECURSIVE GetExportedPath(_)
GetExportedPath(n) ==
    IF n = 0 THEN <<>>
    ELSE GetExportedPath(IF nodes[n].new_scope THEN GlobalNode
                         ELSE nodes[n].next) \o <<n>>

\* env.cpp:1337-1347  the entries of one node written over h
ExportNode_KeepsOuter(h, n) ==
    LET add == {k \in DOMAIN nodes[n].env :
                   nodes[n].env[k].exportv /\ nodes[n].env[k].val # ENV_NULL}
    IN  [k \in DOMAIN h \cup add |->
            IF k \in DOMAIN h THEN h[k] ELSE nodes[n].env[k].val]

ExportNode(h, n) ==
    LET add == {k \in DOMAIN nodes[n].env :
                   nodes[n].env[k].exportv /\ nodes[n].env[k].val # ENV_NULL}
    IN  [k \in DOMAIN h \cup add |->
            IF k \in add THEN nodes[n].env[k].val ELSE h[k]]

RECURSIVE ExportAlong(_, _, _)
ExportAlong(path, i, h) ==
    IF i > Len(path) THEN h
    ELSE ExportAlong(path, i + 1, ExportNode(h, path[i]))

\* env.cpp:1326-1348
get_exported(n) == ExportAlong(GetExportedPath(n), 1, EmptyMap)

\* ---- set -----------------------------------------------------------------

\* what a call leaves behind: its return value, whether it fired a VARIABLE
\* event, and the state it wrote
Outcome(ret, fired, ns, uv, dirty, mask) ==
    [ret |-> ret, fired |-> fired, nodes |-> ns, uvars |-> uv,
     dirty |-> dirty, umask |-> mask]

\* a return that has written nothing
ReturnOnly(ret) ==
    Outcome(ret, FALSE, nodes, uvars, has_changed_exported, process_umask)

\* env.cpp:821-825  the innermost node that opens a scope, or the global one
RECURSIVE InnermostScope(_)
InnermostScope(node) ==
    IF nodes[node].next # 0 /\ ~nodes[node].new_scope
    THEN InnermostScope(nodes[node].next)
    ELSE node

\* a new variable of unspecified scope that goes to the top node
DefaultNode_Local(first) == first

\* env.cpp:814-825  the node of a new variable of unspecified scope, found
\* from top
DefaultNode(first) == InnermostScope(first)

\* env.cpp:716-745  a write to the universal table asked for by the mode
SetUniversal(key, val, var_mode) ==
    LET old_export == uvars_get_export(key)
        new_export == IF HasFlag(var_mode, ENV_EXPORT) THEN TRUE
                      ELSE IF HasFlag(var_mode, ENV_UNEXPORT) THEN FALSE
                      ELSE old_export
    IN  Outcome(0, FALSE, nodes,
                MapPut(uvars, key, [val |-> val, exportv |-> new_export]),
                has_changed_exported \/ old_export \/ new_export,
                process_umask)

\* env.cpp:790-812  a write to a universal variable found by name; nothing
\* on this path calls mark_changed_exported, and the barrier of line 807
\* has no change of another process to report
SetUniversalFallback_DropsExport(key, val, var_mode) ==
    LET exportv == HasFlag(var_mode, ENV_EXPORT)
    IN  Outcome(0, FALSE, nodes,
                MapPut(uvars, key, [val |-> val, exportv |-> exportv]),
                has_changed_exported, process_umask)

SetUniversalFallback(key, val, var_mode) ==
    LET exportv == IF HasFlag(var_mode, ENV_EXPORT) THEN TRUE
                   ELSE IF HasFlag(var_mode, ENV_UNEXPORT) THEN FALSE
                   ELSE uvars_get_export(key)
    IN  Outcome(0, FALSE, nodes,
                MapPut(uvars, key, [val |-> val, exportv |-> exportv]),
                has_changed_exported, process_umask)

\* env.cpp:829-854  the entry written into the chosen node
SetEntry(node, key, val, var_mode, has_changed_new) ==
    LET was_exported == has_entry(node, key) /\ nodes[node].env[key].exportv
        exported == HasFlag(var_mode, ENV_EXPORT)
        changed == has_changed_new \/ was_exported \/ exported
        entry == [val |-> val, exportv |-> exported]
        written == [nodes[node] EXCEPT
                       !.env = MapPut(@, key, entry),
                       !.exportv = IF exported THEN TRUE ELSE @]
    IN  Outcome(0, TRUE, [nodes EXCEPT ![node] = written], uvars,
                has_changed_exported \/ changed, process_umask)

\* env.cpp:748-855  a write to the node stack
SetInStack_AlwaysGlobal(key, val, var_mode) ==
    SetEntry(GlobalNode, key, val, var_mode, FALSE)

SetInStack(key, val, var_mode) ==
    LET preexisting_node == get_node(key)
        preexisting_entry_exportv ==
            preexisting_node # 0 /\ nodes[preexisting_node].env[key].exportv
        has_changed_new == preexisting_entry_exportv
        keeps_export == ~HasFlag(var_mode, ENV_EXPORT)
                            /\ ~HasFlag(var_mode, ENV_UNEXPORT)
    IN  IF HasFlag(var_mode, ENV_GLOBAL)
        THEN SetEntry(GlobalNode, key, val, var_mode, has_changed_new)
        ELSE IF HasFlag(var_mode, ENV_LOCAL)
        THEN SetEntry(top, key, val, var_mode, has_changed_new)
        ELSE IF preexisting_node # 0
        THEN SetEntry(preexisting_node, key, val,
                      IF keeps_export
                      THEN (IF preexisting_entry_exportv THEN ENV_EXPORT
                            ELSE ENV_DEFAULT)
                      ELSE var_mode,
                      has_changed_new)
        ELSE IF ~uvars_get(key).missing
        THEN SetUniversalFallback(key, val, var_mode)
        ELSE SetEntry(DefaultNode(top), key, val, var_mode,
                      has_changed_new)

\* env.cpp:670-705  the checks that refuse a call, 0 when none does
SetError(key, val, var_mode) ==
    IF (HasFlag(var_mode, ENV_LOCAL) \/ HasFlag(var_mode, ENV_UNIVERSAL))
       /\ (is_read_only(key) \/ is_electric(key))
    THEN ENV_SCOPE
    ELSE IF HasFlag(var_mode, ENV_EXPORT) /\ is_electric(key) THEN ENV_SCOPE
    ELSE IF HasFlag(var_mode, ENV_USER) /\ is_read_only(key) THEN ENV_PERM
    ELSE IF key = "umask" /\ ~UmaskAccepts(val) THEN ENV_INVALID
    ELSE 0

\* env.cpp:698  umask(mask) keeps the permission bits of its argument
SetUmask(val) ==
    Outcome(0, FALSE, nodes, uvars, has_changed_exported,
            wcstol8(val).value % 512)

\* env.cpp:670-876  set once the path of PWD or HOME is canonical
SetOutcome_WritesBeforeCheck(key, val, var_mode) ==
    LET v == IF val = NullVal THEN ENV_NULL ELSE val
        written == IF HasFlag(var_mode, ENV_UNIVERSAL)
                   THEN SetUniversal(key, v, var_mode)
                   ELSE SetInStack(key, v, var_mode)
    IN  IF SetError(key, val, var_mode) # 0
        THEN [written EXCEPT !.ret = SetError(key, val, var_mode)]
        ELSE IF key = "umask" THEN SetUmask(val)
        ELSE written

SetOutcome(key, val, var_mode) ==
    LET v == IF val = NullVal THEN ENV_NULL ELSE val
    IN  IF SetError(key, val, var_mode) # 0
        THEN ReturnOnly(SetError(key, val, var_mode))
        ELSE IF key = "umask" THEN SetUmask(val)
        ELSE IF HasFlag(var_mode, ENV_UNIVERSAL)
        THEN SetUniversal(key, v, var_mode)
        ELSE SetInStack(key, v, var_mode)

\* does the call fire its VARIABLE event before it releases s_env_lock:
\* set unlocks at env.cpp:856 and fires at 869, remove fires at 954 and
\* unlocks at 969
FiresBeforeUnlock(op) == op = "remove"

\* the variables of a call that has returned
Returns(op, key, o) ==
    /\ nodes' = o.nodes
    /\ uvars' = o.uvars
    /\ has_changed_exported' = o.dirty
    /\ process_umask' = o.umask
    /\ env_last' = [op |-> op, key |-> key, returned |-> TRUE,
                    ret |-> o.ret, fired |-> o.fired,
                    locked |-> o.fired /\ FiresBeforeUnlock(op)]

\* env.cpp:659-668  does set call itself with the canonical path
SetRecurses(key, val) ==
    /\ val # NullVal
    /\ key \in {"PWD", "HOME"}
    /\ path_make_canonical(val) # val

\* env.cpp:648-876.  The inner call of line 666 locks s_env_lock, which the
\* outer call holds: the mutex is a default one (env.cpp:82), so locking it
\* again is undefined, and the call either never returns or goes on as if
\* the lock had been free.
set(key, val, var_mode) ==
    /\ ~env_deadlocked
    /\ IF SetRecurses(key, val)
       THEN \/ /\ env_deadlocked' = TRUE
               /\ env_last' = [op |-> "set", key |-> key, returned |-> FALSE,
                               ret |-> 0, fired |-> FALSE, locked |-> FALSE]
               /\ UNCHANGED <<nodes, uvars, has_changed_exported,
                              process_umask>>
            \/ /\ Returns("set", key,
                          SetOutcome(key, path_make_canonical(val), var_mode))
               /\ UNCHANGED env_deadlocked
       ELSE /\ Returns("set", key, SetOutcome(key, val, var_mode))
            /\ UNCHANGED env_deadlocked
    /\ UNCHANGED <<top, export_array>>
    /\ UNCHANGED <<jobid_vars, store_vars, later_vars>>

\* ---- remove, push, pop ---------------------------------------------------

\* env.cpp:924-974
RemoveOutcome(key, var_mode) ==
    LET first_node == IF HasFlag(var_mode, ENV_GLOBAL) THEN GlobalNode
                      ELSE top
        n == IF HasFlag(var_mode, ENV_UNIVERSAL) THEN 0
             ELSE try_remove(first_node, key, var_mode)
        erased_node == [nodes EXCEPT ![n].env = MapErase(@, key)]
        try_universal == n = 0 /\ ~HasFlag(var_mode, ENV_GLOBAL)
                             /\ ~HasFlag(var_mode, ENV_LOCAL)
    IN  IF HasFlag(var_mode, ENV_USER) /\ is_read_only(key)
        THEN ReturnOnly(2)
        ELSE IF n # 0
        THEN Outcome(0, TRUE, erased_node, uvars,
                     has_changed_exported \/ nodes[n].env[key].exportv,
                     process_umask)
        ELSE IF try_universal /\ key \in DOMAIN uvars
        THEN Outcome(0, FALSE, nodes, MapErase(uvars, key),
                     has_changed_exported, process_umask)
        ELSE ReturnOnly(1)

remove(key, var_mode) ==
    /\ ~env_deadlocked
    /\ Returns("remove", key, RemoveOutcome(key, var_mode))
    /\ UNCHANGED <<top, env_deadlocked, export_array>>
    /\ UNCHANGED <<jobid_vars, store_vars, later_vars>>

\* env.cpp:1175-1184
push(new_scope) ==
    /\ ~env_deadlocked
    /\ Len(nodes) < MaxNodes
    /\ nodes' = Append(nodes, env_node_t(new_scope, top))
    /\ top' = Len(nodes) + 1
    /\ has_changed_exported' =
           (has_changed_exported \/ (new_scope /\ local_scope_exports(top)))
    /\ env_last' = [op |-> "push", key |-> "", returned |-> TRUE, ret |-> 0,
                    fired |-> FALSE, locked |-> FALSE]
    /\ UNCHANGED <<uvars, process_umask, env_deadlocked, export_array>>
    /\ UNCHANGED <<jobid_vars, store_vars, later_vars>>

\* env.cpp:1217-1226  does the popped node hold an exported entry
HasExportedEntry(n) == \E k \in DOMAIN nodes[n].env : nodes[n].env[k].exportv

\* env.cpp:1186-1240.  No name of locale_variable is among the keys, so
\* locale_changed stays 0.  The node popped is the last one made.
pop ==
    /\ ~env_deadlocked
    /\ IF top # GlobalNode
       THEN /\ has_changed_exported' =
                   (\/ has_changed_exported
                    \/ /\ nodes[top].new_scope
                       /\ \/ nodes[top].exportv
                          \/ local_scope_exports(nodes[top].next)
                    \/ HasExportedEntry(top))
            /\ top' = nodes[top].next
            /\ nodes' = SubSeq(nodes, 1, Len(nodes) - 1)
            /\ env_last' = [op |-> "pop", key |-> "", returned |-> TRUE,
                            ret |-> 0, fired |-> FALSE, locked |-> FALSE]
       ELSE /\ env_last' = [op |-> "pop", key |-> "sanity_lose",
                            returned |-> TRUE, ret |-> 0, fired |-> FALSE, locked |-> FALSE]
            /\ UNCHANGED <<nodes, top, has_changed_exported>>
    /\ UNCHANGED <<uvars, process_umask, env_deadlocked, export_array>>
    /\ UNCHANGED <<jobid_vars, store_vars, later_vars>>

\* ---- the export array ----------------------------------------------------

\* common.h  ARRAY_SEP, the one-character string 0x1e between the elements
\* of an array value
ARRAY_SEP == "\\x1e"

\* env.cpp:474-477
variable_is_colon_delimited_array(key) == key \in {"PATH", "MANPATH", "CDPATH"}

\* the keys of a std::map<wcstring, wcstring> come out in this order
KeyOrder == <<"CDPATH", "MANPATH", "PATH", "PWD", "foo", "umask">>

\* env.cpp:1365  std::replace(vs.begin(), vs.end(), ARRAY_SEP, ':')
ReplaceSep_Unchanged(vs) == vs

ReplaceSep(vs) == [i \in 1..Len(vs) |-> IF vs[i] = ARRAY_SEP THEN ":" ELSE vs[i]]

\* env.cpp:1351-1378  key=value, one string for each key of the map
RECURSIVE export_func_from(_, _)
export_func_from(envs, i) ==
    IF i > Len(KeyOrder) THEN <<>>
    ELSE (IF KeyOrder[i] \in DOMAIN envs
          THEN <<<<KeyOrder[i], "=">> \o
                 (IF variable_is_colon_delimited_array(KeyOrder[i])
                  THEN ReplaceSep(envs[KeyOrder[i]])
                  ELSE envs[KeyOrder[i]])>>
          ELSE <<>>)
         \o export_func_from(envs, i + 1)

export_func(envs) == export_func_from(envs, 1)

\* env.cpp:1397-1414  the exported values of the stack and, where the stack
\* has none, of the universal table
ExportedValues ==
    LET vals == get_exported(top)
        uni == {k \in DOMAIN uvars :
                   /\ uvars[k].exportv
                   /\ uvars[k].val # ENV_NULL
                   /\ k \notin DOMAIN vals}
    IN  [k \in DOMAIN vals \cup uni |->
            IF k \in DOMAIN vals THEN vals[k] ELSE uvars[k].val]

\* env.cpp:1380-1422.  The key of env_last tells whether the call walked
\* the scopes and built the array anew.
update_export_array_if_necessary_KeepsFlag(recalc) ==
    /\ ~env_deadlocked
    /\ IF has_changed_exported
       THEN /\ export_array' = export_func(ExportedValues)
            /\ UNCHANGED has_changed_exported
       ELSE UNCHANGED <<export_array, has_changed_exported>>
    /\ env_last' = [op |-> "update_export_array_if_necessary",
                    key |-> IF has_changed_exported THEN "rebuilt" ELSE "",
                    returned |-> TRUE, ret |-> 0, fired |-> FALSE,
                    locked |-> FALSE]
    /\ UNCHANGED <<nodes, top, uvars, process_umask, env_deadlocked>>
    /\ UNCHANGED <<jobid_vars, store_vars, later_vars>>

update_export_array_if_necessary(recalc) ==
    /\ ~env_deadlocked
    /\ IF has_changed_exported
       THEN /\ export_array' = export_func(ExportedValues)
            /\ has_changed_exported' = FALSE
       ELSE UNCHANGED <<export_array, has_changed_exported>>
    /\ env_last' = [op |-> "update_export_array_if_necessary",
                    key |-> IF has_changed_exported THEN "rebuilt" ELSE "",
                    returned |-> TRUE, ret |-> 0, fired |-> FALSE,
                    locked |-> FALSE]
    /\ UNCHANGED <<nodes, top, uvars, process_umask, env_deadlocked>>
    /\ UNCHANGED <<jobid_vars, store_vars, later_vars>>

\* env.cpp:530-533  std::replace(val.begin(), val.end(), L':', ARRAY_SEP)
\* for the names that are colon-delimited
ImportValue(key, val) ==
    IF variable_is_colon_delimited_array(key)
    THEN [i \in 1..Len(val) |-> IF val[i] = ":" THEN ARRAY_SEP ELSE val[i]]
    ELSE val

\* env.cpp:515-537  the import of one string of environ: a read-only or
\* electric name is passed over, a string without an equals sign is a
\* name with the empty value
env_init_import(entry) ==
    IF is_read_only(entry.key) \/ is_electric(entry.key)
    THEN /\ env_last' = [op |-> "env_init", key |-> entry.key,
                         returned |-> TRUE, ret |-> 0, fired |-> FALSE,
                         locked |-> FALSE]
         /\ UNCHANGED <<nodes, top, uvars, has_changed_exported,
                        process_umask, env_deadlocked, export_array>>
         /\ UNCHANGED <<jobid_vars, store_vars, later_vars>>
    ELSE set(entry.key,
             IF entry.eql THEN ImportValue(entry.key, entry.val) ELSE <<>>,
             ENV_EXPORT + ENV_GLOBAL)

\* no call has been made, or the caller has taken the result of the last one
NoLast == [op |-> "none", key |-> "", returned |-> TRUE, ret |-> 0,
           fired |-> FALSE, locked |-> FALSE]

\* env.cpp:149, 222: an empty global node on top, the export array to be
\* built; the file mode creation mask is the one the process starts with
EnvInit ==
    /\ nodes = <<env_node_t(FALSE, 0)>>
    /\ top = GlobalNode
    /\ uvars = EmptyMap
    /\ has_changed_exported = TRUE
    /\ process_umask = InitialUmask
    /\ env_deadlocked = FALSE
    /\ export_array = <<>>
    /\ env_last = NoLast

(***************************************************************************)
(* Child stacks, env.cpp:149-156, 1175-1240.  A child stack shares the     *)
(* nodes of its parent and must not pop the node it was made on.  No call  *)
(* of set is made on these stacks, so every variable table is empty: no    *)
(* locale variable is found, no node exports, and push and pop change the  *)
(* references alone.                                                       *)
(***************************************************************************)

\* the nodes of the shared tree
MaxTreeNodes == 3

\* the stacks, the main one included
MaxStacks == 2

\* env.cpp:1186-1240  what pop does to a stack: the assertion of line 1189
\* ends the process, the global node is refused with sanity_lose
PopOutcome_NoAssert(st) ==
    IF st.top # GlobalNode
    THEN [top |-> stack_nodes[st.top].next, outcome |-> "popped"]
    ELSE [top |-> st.top, outcome |-> "sanity_lose"]

PopOutcome(st) ==
    IF st.boundary # 0 /\ st.boundary = st.top
    THEN [top |-> st.top, outcome |-> "assert"]
    ELSE IF st.top # GlobalNode
    THEN [top |-> stack_nodes[st.top].next, outcome |-> "popped"]
    ELSE [top |-> st.top, outcome |-> "sanity_lose"]

\* the process has not been ended by a failed assertion
StacksRunning == stack_last.outcome # "assert"

\* env.cpp:1175-1184
stack_push(s, new_scope) ==
    /\ StacksRunning
    /\ Len(stack_nodes) < MaxTreeNodes
    /\ stack_nodes' = Append(stack_nodes,
                             [next |-> stacks[s].top, new_scope |-> new_scope])
    /\ stacks' = [stacks EXCEPT ![s].top = Len(stack_nodes) + 1]
    /\ stack_last' = [op |-> "push", stack |-> s, outcome |-> "pushed"]
    /\ UNCHANGED <<jobid_vars, store_vars, env_vars, harness_vars, environ,
                   tty_pgrp,
                   proc_vars, parser_vars>>

\* env.cpp:1186-1240
stack_pop(s) ==
    /\ StacksRunning
    /\ stacks' = [stacks EXCEPT ![s].top = PopOutcome(stacks[s]).top]
    /\ stack_last' = [op |-> "pop", stack |-> s,
                      outcome |-> PopOutcome(stacks[s]).outcome]
    /\ UNCHANGED stack_nodes
    /\ UNCHANGED <<jobid_vars, store_vars, env_vars, harness_vars, environ,
                   tty_pgrp,
                   proc_vars, parser_vars>>

\* env.cpp:154-156  env_stack_t(const env_stack_t &parent)
child_stack(parent) ==
    /\ StacksRunning
    /\ Len(stacks) < MaxStacks
    /\ stacks' = Append(stacks, [top |-> stacks[parent].top,
                                 boundary |-> stacks[parent].top])
    /\ stack_last' = [op |-> "child", stack |-> Len(stacks) + 1,
                      outcome |-> "made"]
    /\ UNCHANGED stack_nodes
    /\ UNCHANGED <<jobid_vars, store_vars, env_vars, harness_vars, environ,
                   tty_pgrp,
                   proc_vars, parser_vars>>

\* env.cpp:149-151  the main stack on its global node
StacksInit ==
    /\ stack_nodes = <<[next |-> 0, new_scope |-> FALSE]>>
    /\ stacks = <<[top |-> GlobalNode, boundary |-> 0]>>
    /\ stack_last = [op |-> "none", stack |-> 0, outcome |-> "none"]

\* no string of environ is being imported
NoEnviron == [key |-> "", eql |-> FALSE, val |-> <<>>]

\* the length of the values of the imported strings
MaxImportLen == 3

\* the characters of the imported values: a colon, the separator itself,
\* and two others
ImportAlphabet == {"/", "b", ":", ARRAY_SEP}

RECURSIVE ImportStrings(_)
ImportStrings(n) ==
    IF n = 0 THEN {<<>>}
    ELSE ImportStrings(n - 1)
         \cup {Append(v, c) : v \in ImportStrings(n - 1), c \in ImportAlphabet}

\* the names imported: the colon-delimited ones, an ordinary one, a
\* read-only one and an electric one
ImportKeys == {"PATH", "MANPATH", "CDPATH", "foo", "PWD", "umask"}

Environ ==
    {[key |-> k, eql |-> TRUE, val |-> v] :
        k \in ImportKeys, v \in ImportStrings(MaxImportLen)}
    \cup {[key |-> k, eql |-> FALSE, val |-> <<>>] : k \in ImportKeys}

\* ---- the calls the specifications make -----------------------------------

Keys == {"foo", "PWD", "umask"}

Modes == 0..AllFlags

\* the modes the calls on an ordinary variable take: each scope, alone and
\* with each export flag that changes what the call does
VarModes ==
    {ENV_DEFAULT, ENV_LOCAL, ENV_GLOBAL, ENV_UNIVERSAL, ENV_EXPORT,
     ENV_UNEXPORT, ENV_LOCAL + ENV_EXPORT, ENV_LOCAL + ENV_UNEXPORT,
     ENV_GLOBAL + ENV_EXPORT, ENV_UNIVERSAL + ENV_EXPORT}

\* the modes set takes for PWD and umask: the one the shell itself uses for
\* PWD, the default one, and one for each error set answers
SpecialModes == {ENV_GLOBAL + ENV_EXPORT, ENV_DEFAULT, ENV_LOCAL, ENV_USER}

CallModes(key) == IF key = "foo" THEN VarModes ELSE SpecialModes

\* the modes remove takes: it reads the scope flags and ENV_USER and no
\* export flag (env.cpp:931-964)
RemoveModes(key) ==
    IF key = "foo" THEN {ENV_DEFAULT, ENV_LOCAL, ENV_GLOBAL, ENV_UNIVERSAL}
    ELSE {ENV_DEFAULT, ENV_USER}

\* the values a call may pass for a key
SetVals(key) ==
    IF key = "PWD" THEN {<<"/", "d">>, <<"/", "d", "/">>}
    ELSE IF key = "umask" THEN {<<"7", "7">>, <<"8">>}
    ELSE {<<"a">>, NullVal}

NoCall == [key |-> "", val |-> <<>>, mode |-> 0]

\* the characters of the strings given to umask: the octal digits and one
\* that is none
UmaskAlphabet == {OctalDigits[d] : d \in 1..Len(OctalDigits)} \cup {"8"}

RECURSIVE StringsOfLength(_)
StringsOfLength(n) ==
    IF n = 0 THEN {<<>>}
    ELSE {Append(s, c) : s \in StringsOfLength(n - 1), c \in UmaskAlphabet}

\* every string of at most MaxUmaskLen such characters, and some with a
\* sign, a space, a letter, or nothing at all
UmaskStrings ==
    UNION {StringsOfLength(n) : n \in 0..MaxUmaskLen}
    \cup {NullVal, <<" ", "7">>, <<"7", " ">>, <<"-", "0">>, <<"-", "1">>,
          <<"+", "2", "2">>, <<"7", "x">>, <<"0", "7", "7", "7">>,
          <<"1", "0", "0", "0">>, <<"0", "0", "0", "2", "2">>}

\* the modes tried with each of them
UmaskModes ==
    {ENV_DEFAULT, ENV_USER, ENV_UNEXPORT, ENV_GLOBAL, ENV_LOCAL, ENV_EXPORT}

\* the single calls whose result is compared with their arguments: every
\* mode with a few values of each key, every umask string with a few modes
SetArgs ==
    {[key |-> k, val |-> v, mode |-> m] :
        k \in {"foo"}, v \in SetVals("foo"), m \in Modes}
    \cup {[key |-> k, val |-> v, mode |-> m] :
        k \in {"PWD"}, v \in SetVals("PWD"), m \in Modes}
    \cup {[key |-> k, val |-> v, mode |-> m] :
        k \in {"umask"}, v \in SetVals("umask") \cup {NullVal, <<>>},
        m \in Modes}
    \cup {[key |-> k, val |-> v, mode |-> m] :
        k \in {"umask"}, v \in UmaskStrings, m \in UmaskModes}

NoSnapshot == [phase |-> "free", saved |-> <<>>, shadowed |-> FALSE]

\* the modes of a lookup: get, exist and get_names read every flag but
\* ENV_USER, and with both export flags they do as with none
\* (env.cpp:994-995, 1100-1101, 1279-1280)
LookupModes ==
    {m \in Modes :
        /\ ~HasFlag(m, ENV_USER)
        /\ ~(HasFlag(m, ENV_EXPORT) /\ HasFlag(m, ENV_UNEXPORT))}

\* every lookup a caller can make, as it answers now
AllGets == [a \in Keys \X LookupModes |-> get(a[1], a[2])]

\* a mode that names the local scope alone
IsLocalMode(mode) ==
    /\ HasFlag(mode, ENV_LOCAL)
    /\ ~HasFlag(mode, ENV_GLOBAL)
    /\ ~HasFlag(mode, ENV_UNIVERSAL)

(***************************************************************************)
(* Processes and jobs, proc.cpp and job.cpp:70-166.  The main thread makes *)
(* the calls; the kernel and the reaper thread run beside it.  Each pid    *)
(* names one process for the whole run.                                    *)
(***************************************************************************)
\* jobs in the job list at once
MaxJobList == 1

\* the pids of the children forked over a run: enough for a pipeline of
\* three stages
ProcPids == {1, 2, 3}

\* the longest pipeline
MaxStages == Cardinality(ProcPids)

\* getpid(): the pid of the shell, which is also the pgid of a job run
\* without job control
ShellPid == MaxStages + 1

\* the wait statuses told apart: exit with code 0 (the raw status 0 that a
\* process_t starts with, proc.cpp:303), death by SIGINT or SIGQUIT, death
\* by SIGPIPE, and a stop; the children of this model exit or die of SIGINT
StatusZero == "exited"
ExitStatuses == {"exited", "sigint"}

WIFSTOPPED(status) == status = "stopped"
WIFSIGNALED(status) == status \in {"sigint", "sigpipe"}
WIFEXITED(status) == status = "exited"

\* proc.cpp:291-310 process_t::process_t; exit_fired is no member of
\* process_t: it records that job_reap has fired PROCESS_EXIT for the
\* process, and nothing reads it
NewProcess ==
    [pid |-> 0, completed |-> FALSE, stopped |-> FALSE, status |-> StatusZero,
     exit_fired |-> FALSE]

\* proc.cpp:133-163; the last branch, for a status of no known kind, sets
\* completed as the second does
mark_process_status(p, status) ==
    IF WIFSTOPPED(status)
    THEN [p EXCEPT !.status = status, !.stopped = TRUE]
    ELSE [p EXCEPT !.status = status, !.completed = TRUE]

\* job.cpp:85-97
job_is_stopped(j) ==
    \A i \in 1..Len(j.procs) : j.procs[i].completed \/ j.procs[i].stopped

\* a job that counts as completed once its last process has ended
job_is_completed_LastOnly(j) ==
    j.procs[Len(j.procs)].completed

\* job.cpp:105-118
job_is_completed(j) ==
    \A i \in 1..Len(j.procs) : j.procs[i].completed

job_get_flag(j, flag) == flag \in j.flags

job_set_flag(j, flag, on) ==
    [j EXCEPT !.flags = IF on THEN @ \cup {flag} ELSE @ \ {flag}]

\* the positions <<job, process>> of the job list whose process has this pid
Located(jl, pid) ==
    {m \in (1..Len(jl)) \X (1..MaxStages) :
        m[2] <= Len(jl[m[1]].procs) /\ jl[m[1]].procs[m[2]].pid = pid}

\* proc.cpp:196-231: the first of them in the order of the two loops
FirstMatch(jl, pid) ==
    CHOOSE m \in Located(jl, pid) :
        \A n \in Located(jl, pid) :
            m[1] < n[1] \/ (m[1] = n[1] /\ m[2] <= n[2])

\* a walk that takes the following stage for the preceding one
Predecessor_Following(procs, i) == IF i < Len(procs) THEN i + 1 ELSE 0

\* proc.cpp:198, 230: prev, the process before process i of the chain, 0
\* for the null pointer
Predecessor(procs, i) == IF i > 1 THEN i - 1 ELSE 0

\* a test that leaves out whether the writer has completed
SignalsPredecessor_Completed(p, prev) ==
    p.completed /\ prev.pid # 0

\* proc.cpp:212-214: the tests that guard kill(prev->pid, SIGPIPE), p being
\* the process as mark_process_status left it
SignalsPredecessor(p, prev) ==
    p.completed /\ ~prev.completed /\ prev.pid # 0

\* proc.cpp:182-275 handle_child_status: the job list it leaves, the
\* signals it sends, whether it asks the principal parser to skip all
\* blocks, and whether it has raised the signal against the shell itself
handle_child_status(jl, pid, status) ==
    LET found_proc == Located(jl, pid) # {}
        m == FirstMatch(jl, pid)
        procs == jl[m[1]].procs
        p == mark_process_status(procs[m[2]], status)
        prev == Predecessor(procs, m[2])
        interrupt == status = "sigint"
    IN  [job_list |-> IF found_proc
                      THEN [jl EXCEPT ![m[1]].procs[m[2]] = p]
                      ELSE jl,
         sent |-> (IF found_proc /\ prev # 0
                      /\ SignalsPredecessor(p, procs[prev])
                   THEN {[pid |-> procs[prev].pid, sig |-> "SIGPIPE"]}
                   ELSE {})
                  \cup
                  (IF interrupt /\ ~is_interactive_session
                   THEN {[pid |-> ShellPid, sig |-> "SIGINT"]}
                   ELSE {}),
         skip_all_blocks |-> interrupt /\ is_interactive_session /\ found_proc,
         killed |-> interrupt /\ ~is_interactive_session]

\* the pids of the job list as wait_for_job_in_parser walks them
PidLists(jl) ==
    [j \in 1..Len(jl) |->
        [i \in 1..Len(jl[j].procs) |-> jl[j].procs[i].pid]]

\* job.cpp:305-308: the test of the early return
NoJobs == ~waitpid_thread_running /\ DOMAIN status_map = {}

\* job.cpp:311-332: the pid a scan of the job list claims, -1 for none
Claimable(jl) == ScanResult(PidLists(jl), status_map)

\* proc.cpp:277-288 reap_job_and_apply_exit_status for a call of
\* wait_for_job_in_parser that returns without sleeping: a claimed status
\* is handled, and got tells whether there was one
ReapNow(jl) ==
    IF NoJobs \/ Claimable(jl) = -1
    THEN [job_list |-> jl, sent |-> {}, killed |-> FALSE, got |-> FALSE,
          map |-> status_map, skip_all_blocks |-> FALSE]
    ELSE LET pid == Claimable(jl)
             h == handle_child_status(jl, pid, status_map[pid].status)
         IN  [job_list |-> h.job_list, sent |-> h.sent, killed |-> h.killed,
              got |-> TRUE, map |-> MapAfterClaim(status_map, pid),
              skip_all_blocks |-> h.skip_all_blocks]

\* proc.cpp:358: the timeout process_mark_finished_children passes on
AwaitTimeout(wants_await) == IF wants_await THEN -1 ELSE 0

NoProcLast ==
    [op |-> "none", sig |-> "none", sent |-> {}, trace |-> <<>>, sel |-> 0,
     got |-> FALSE, blocked |-> FALSE]

MainIdle == [pc |-> "idle", job |-> 0]

\* the main thread is between two calls
Quiet == proc_last = NoProcLast

\* the threads that run a parser: the main thread and the background
\* thread of the child parser
Threads == {"main", "bg"}

\* type and flag are the block type eval_block_node was called with and
\* the cancellation flag it found
NoParserLast ==
    [op |-> "none", thread |-> "none", ret |-> 0, type |-> "none",
     flag |-> FALSE]

\* no child parser has been made
NoChild ==
    [state |-> "none", cancellation_requested |-> FALSE, shared |-> 0,
     job_list |-> <<>>]

\* the thread is not in job_reap
ReapOut == [pc |-> "out", interactive |-> FALSE]

ParserInit ==
    /\ block_stack = <<>>
    /\ cancellation_requested = FALSE
    /\ eval_frames = <<>>
    /\ parser_last = NoParserLast
    /\ child_parser = NoChild
    /\ locked = FALSE
    /\ reap_pc = [t \in Threads |-> ReapOut]

\* parser.cpp:323-326: every block of the principal parser told to skip
SkippedBlocks(blocks) ==
    [i \in DOMAIN blocks |-> [blocks[i] EXCEPT !.skip = TRUE]]

\* parser.cpp:315-328 skip_all_blocks, when called is TRUE: the flag and
\* the blocks of the principal parser as the call leaves them
skip_all_blocks(called) ==
    /\ cancellation_requested' = (cancellation_requested \/ called)
    /\ block_stack' = IF called THEN SkippedBlocks(block_stack)
                      ELSE block_stack

\* the variables of the parser that the calls of proc.cpp leave alone
parser_rest == <<eval_frames, parser_last, child_parser, locked, reap_pc>>

ProcInit ==
    /\ ParserInit
    /\ tty_pgrp = ShellPid
    /\ job_list = <<>>
    /\ kernel = [q \in ProcPids |-> "none"]
    /\ fg_loop = MainIdle
    /\ proc_last = NoProcLast

\* the pipelines exec launches here: each stage is forked ("fork"), runs
\* inside the shell ("internal", its pid stays 0), or fails to launch
\* ("failed"), after which no later stage is launched
Shapes ==
    {<<"fork">>, <<"fork", "fork">>, <<"fork", "fork", "fork">>,
     <<"internal", "fork">>, <<"fork", "failed">>}

\* the flags a job is built with and whether its io chain holds an
\* IO_BUFFER redirection
JobKinds ==
    {[flags |-> {"FOREGROUND", "CONTROL"}, buffered |-> FALSE],
     [flags |-> {"CONTROL"}, buffered |-> FALSE],
     [flags |-> {"SKIP_NOTIFICATION"}, buffered |-> FALSE]}

\* the same for the jobs that job_continue waits for
ForegroundKinds ==
    {[flags |-> {"FOREGROUND", "CONTROL"}, buffered |-> FALSE],
     [flags |-> {"FOREGROUND"}, buffered |-> TRUE]}

\* the same for the jobs that are given the terminal
TerminalKinds ==
    {[flags |-> {"FOREGROUND", "CONTROL", "TERMINAL"}, buffered |-> FALSE]}

\* the children forked so far
Forked == {q \in ProcPids : kernel[q] # "none"}

\* the number of forked stages among the first i of a shape
ForksUpTo(shape, i) == Cardinality({k \in 1..i : shape[k] = "fork"})

\* the process chain of a launched pipeline: a forked stage has the next
\* unused pid, and job_mark_process_as_failed (proc.cpp:165-172) has marked
\* the stage that failed and every stage after it completed
LaunchedProcs(shape) ==
    [i \in 1..Len(shape) |->
        IF shape[i] = "fork"
        THEN [NewProcess EXCEPT
                 !.pid = Cardinality(Forked) + ForksUpTo(shape, i)]
        ELSE IF shape[i] = "failed"
        THEN [NewProcess EXCEPT !.completed = TRUE]
        ELSE NewProcess]

\* the process group of a launched job: that of its first child under job
\* control, the shell's own without
LaunchedPgid(procs, flags) ==
    LET forked == {i \in 1..Len(procs) : procs[i].pid # 0}
    IN  IF "CONTROL" \in flags
        THEN procs[CHOOSE i \in forked : \A k \in forked : i <= k].pid
        ELSE ShellPid

\* A pipeline with at least one child is set up and launched: job_t::job_t
\* takes a job id, the job goes to the front of the job list
\* (parser.cpp:980), every forked stage is announced with
\* child_process_spawned (job.cpp:255-271)
exec_job(shape, kind) ==
    /\ Quiet
    /\ fg_loop.pc = "idle"
    /\ Len(job_list) < MaxJobList
    /\ ForksUpTo(shape, Len(shape)) > 0
    /\ Cardinality(Forked) + ForksUpTo(shape, Len(shape)) <= MaxStages
    /\ LET procs == LaunchedProcs(shape)
           pids == {procs[i].pid : i \in 1..Len(procs)} \ {0}
           j == [job_id |-> AcquireResult(consumed_job_ids),
                 pgid |-> LaunchedPgid(procs, kind.flags),
                 flags |-> kind.flags,
                 buffered |-> kind.buffered,
                 procs |-> procs]
       IN  /\ job_list' = <<j>> \o job_list
           /\ consumed_job_ids' = AcquireVector(consumed_job_ids)
           /\ kernel' = [q \in ProcPids |->
                  IF q \in pids THEN "running" ELSE kernel[q]]
           /\ needs_waitpid_gen_count' =
                  needs_waitpid_gen_count + Cardinality(pids)
           /\ waitpid_thread_running' =
                  (waitpid_thread_running \/ pids # {})
    /\ proc_last' = [NoProcLast EXCEPT !.op = "exec_job"]
    /\ UNCHANGED <<is_interactive_session, fg_loop>>
    /\ UNCHANGED <<job_id, job_last, status_map, child, reapers, jobs, ppc,
                   wait_timeout, wait_result>>
    /\ UNCHANGED <<env_vars, harness_vars, stack_vars, environ, tty_pgrp,
                   parser_vars>>

\* the frame of a step of the kernel and the reaper thread
ReaperFrame ==
    /\ UNCHANGED <<job_list, is_interactive_session, fg_loop, proc_last>>
    /\ UNCHANGED <<jobid_vars, needs_waitpid_gen_count,
                   waitpid_thread_running, child, reapers, jobs, ppc,
                   wait_timeout, wait_result>>
    /\ UNCHANGED <<env_vars, harness_vars, stack_vars, environ, tty_pgrp,
                   parser_vars>>

\* job.cpp:196-245, one pass of the loop of the reaper thread, which runs
\* as long as the shell has a child: child q is stopped by a signal,
\* waitpid(-1, &status, WUNTRACED) reports it and the status goes into the
\* map.  Until the report the main thread sees what it sees while the
\* child runs, so the change and its report are one step.
child_stops(q) ==
    /\ Quiet
    /\ kernel[q] = "running"
    /\ kernel' = [kernel EXCEPT ![q] = "stopped"]
    /\ status_map' = MapPut(status_map, q,
                            [status |-> "stopped", returned |-> FALSE])
    /\ ReaperFrame

\* the same pass for a child that exits or is killed
child_exits(q, status) ==
    /\ Quiet
    /\ kernel[q] \in {"running", "stopped"}
    /\ kernel' = [kernel EXCEPT ![q] = "reaped"]
    /\ status_map' = MapPut(status_map, q,
                            [status |-> status, returned |-> FALSE])
    /\ ReaperFrame

\* job.cpp:226-250: waitpid fails with ECHILD, the shell having no child
\* left, and the reaper thread ends
reaper_exits ==
    /\ Quiet
    /\ waitpid_thread_running
    /\ \A q \in ProcPids : kernel[q] \in {"none", "reaped"}
    /\ waitpid_thread_running' = FALSE
    /\ UNCHANGED <<job_list, kernel, is_interactive_session, fg_loop,
                   proc_last>>
    /\ UNCHANGED <<jobid_vars, needs_waitpid_gen_count, status_map, child,
                   reapers, jobs, ppc, wait_timeout, wait_result>>
    /\ UNCHANGED <<env_vars, harness_vars, stack_vars, environ, tty_pgrp,
                   parser_vars>>

\* proc.cpp:482-493 proc_fire_event: the event as the handlers see it
ProcEvent(msg, type, key) == [msg |-> msg, type |-> type, key |-> key]

\* the entry the trace of a call keeps for job_free (job.cpp:16-20)
Freed(j) == [msg |-> "job_free", type |-> "none", key |-> j.job_id]

\* proc.cpp:530: the jobs job_reap passes over
SkipsJob(j, interactive) ==
    /\ ~job_get_flag(j, "SKIP_NOTIFICATION")
    /\ ~interactive
    /\ ~job_get_flag(j, "FOREGROUND")

\* proc.cpp:537-545: the processes job_reap reports
Reported(p) == p.completed /\ p.pid # 0

\* proc.cpp:549-555: death by a signal other than SIGPIPE
DiedOfSignal(p) == WIFSIGNALED(p.status) /\ p.status # "sigpipe"

\* proc.cpp:535-601: the loop of job_reap over the processes of job j: the
\* job as it leaves it, with the statuses it has reported cleared
ReportProcesses(j) ==
    LET proc_is_job == Len(j.procs) = 1
        notified == proc_is_job /\ Reported(j.procs[1])
                        /\ DiedOfSignal(j.procs[1])
        cleared == [i \in 1..Len(j.procs) |->
                       IF Reported(j.procs[i])
                       THEN [j.procs[i] EXCEPT
                                !.status = IF DiedOfSignal(j.procs[i])
                                           THEN StatusZero ELSE @,
                                !.exit_fired = TRUE]
                       ELSE j.procs[i]]
    IN  [(IF notified THEN job_set_flag(j, "NOTIFIED", TRUE) ELSE j)
            EXCEPT !.procs = cleared]

\* the PROCESS_EXIT events of that loop, in the order of the chain
ProcessExitEvents(j) ==
    LET reported == SelectSeq(j.procs, Reported)
    IN  [k \in 1..Len(reported) |->
            ProcEvent("PROCESS_EXIT", "EVENT_EXIT", reported[k].pid)]

\* proc.cpp:608-618: the two JOB_EXIT events of a completed job
JobExitEvents(j) ==
    <<ProcEvent("JOB_EXIT", "EVENT_EXIT", -j.pgid),
      ProcEvent("JOB_EXIT", "EVENT_JOB_ID", j.job_id)>>

\* proc.cpp:517-632: the loop of job_reap over the job list: the jobs it
\* leaves in the list and what it has done, in order
RECURSIVE ReapJobs(_, _)
ReapJobs(jl, interactive) ==
    IF jl = <<>> THEN [kept |-> <<>>, trace |-> <<>>]
    ELSE LET rest == ReapJobs(Tail(jl), interactive)
             j == ReportProcesses(Head(jl))
         IN  IF SkipsJob(Head(jl), interactive)
             THEN [kept |-> <<Head(jl)>> \o rest.kept, trace |-> rest.trace]
             ELSE IF job_is_completed(j)
             THEN [kept |-> rest.kept,
                   trace |-> ProcessExitEvents(Head(jl)) \o JobExitEvents(j)
                                 \o <<Freed(j)>> \o rest.trace]
             ELSE [kept |->
                       <<IF job_is_stopped(j)
                            /\ ~job_get_flag(j, "NOTIFIED")
                         THEN job_set_flag(j, "NOTIFIED", TRUE)
                         ELSE j>> \o rest.kept,
                   trace |-> ProcessExitEvents(Head(jl)) \o rest.trace]

\* job_t::~job_t (proc.cpp:331-336) for each job freed, in order
RECURSIVE ReleaseAll(_, _)
ReleaseAll(v, trace) ==
    IF trace = <<>> THEN v
    ELSE IF Head(trace).msg = "job_free"
    THEN ReleaseAll(ReleaseVector(v, Head(trace).key), Tail(trace))
    ELSE ReleaseAll(v, Tail(trace))

\* what the main thread is left doing after a reap that may have raised
\* SIGINT against the shell
AfterReap(r, pc) == IF r.killed THEN [pc |-> "killed", job |-> 0] ELSE pc

\* proc.cpp:495-645 job_reap(parser, interactive), called outside an event
\* handler, so with locked clear; the handlers of the events it fires do
\* nothing
job_reap(interactive) ==
    /\ Quiet
    /\ fg_loop.pc = "idle"
    /\ LET r == ReapNow(job_list)
           done == ReapJobs(r.job_list, interactive)
       IN  IF r.killed
           THEN /\ job_list' = r.job_list
                /\ UNCHANGED consumed_job_ids
                /\ proc_last' = [NoProcLast EXCEPT !.op = "job_reap",
                                     !.sent = r.sent, !.got = r.got]
                /\ status_map' = r.map
                /\ fg_loop' = AfterReap(r, fg_loop)
           ELSE /\ job_list' = done.kept
                /\ consumed_job_ids' =
                       ReleaseAll(consumed_job_ids, done.trace)
                /\ proc_last' = [NoProcLast EXCEPT !.op = "job_reap",
                                     !.sent = r.sent, !.got = r.got,
                                     !.trace = done.trace]
                /\ status_map' = r.map
                /\ UNCHANGED fg_loop
    /\ skip_all_blocks(ReapNow(job_list).skip_all_blocks)
    /\ UNCHANGED <<kernel, is_interactive_session, parser_rest>>
    /\ UNCHANGED <<job_id, job_last, needs_waitpid_gen_count,
                   waitpid_thread_running, child, reapers, jobs, ppc,
                   wait_timeout, wait_result>>
    /\ UNCHANGED <<env_vars, harness_vars, stack_vars, environ, tty_pgrp>>

\* the signals job_signal can be asked to send
Signals == {"SIGHUP", "SIGTERM", "SIGCONT"}

\* the uncompleted processes of a job that have a pid, in order
RECURSIVE LiveTargets(_)
LiveTargets(procs) ==
    IF procs = <<>> THEN <<>>
    ELSE IF ~Head(procs).completed /\ Head(procs).pid # 0
    THEN <<Head(procs).pid>> \o LiveTargets(Tail(procs))
    ELSE LiveTargets(Tail(procs))

\* kill(2) fails with ESRCH for a child that has been waited for
KillFails(pid) == pid \in ProcPids /\ kernel[pid] = "reaped"

\* the pids of a sequence that come before the first for which kill fails
RECURSIVE Delivered(_)
Delivered(pids) ==
    IF pids = <<>> \/ KillFails(Head(pids)) THEN {}
    ELSE {Head(pids)} \cup Delivered(Tail(pids))

\* job.cpp:144, 154: the signal job_signal passes to killpg and kill
SignalSent(signal) == "SIGHUP"

\* job.cpp:137-166 job_signal(j, signal) for the job at place n of the
\* list; killpg(pgid, sig) is kill(-pgid, sig)
job_signal(n, signal) ==
    /\ Quiet
    /\ fg_loop.pc = "idle"
    /\ n \in 1..Len(job_list)
    /\ LET j == job_list[n]
       IN  proc_last' = [NoProcLast EXCEPT
               !.op = "job_signal",
               !.sig = signal,
               !.sent =
                   IF j.pgid # ShellPid
                   THEN {[pid |-> -j.pgid, sig |-> SignalSent(signal)]}
                   ELSE {[pid |-> q, sig |-> SignalSent(signal)] :
                            q \in Delivered(LiveTargets(j.procs))}]
    /\ UNCHANGED <<job_list, kernel, is_interactive_session, fg_loop>>
    /\ UNCHANGED <<jobid_vars, store_vars, env_vars, harness_vars,
                   stack_vars, environ, tty_pgrp, parser_vars>>

\* parser.cpp:999-1006 job_promote: the job at place n goes to the front
job_promote(jl, n) ==
    <<jl[n]>> \o SubSeq(jl, 1, n - 1) \o SubSeq(jl, n + 1, Len(jl))

\* the children the SIGCONT of job_continue reaches: the process group of a
\* job under job control, every pid of the chain otherwise
Continued(j) ==
    {q \in ProcPids :
        /\ \E i \in 1..Len(j.procs) : j.procs[i].pid = q
        /\ kernel[q] \in {"running", "stopped"}}

\* proc.cpp:981-1006: whether killpg or one of the kill calls fails, so
\* that job_continue returns
ContinueFails(j) ==
    IF job_get_flag(j, "CONTROL")
    THEN \A i \in 1..Len(j.procs) :
             j.procs[i].pid = 0 \/ kernel[j.procs[i].pid] = "reaped"
    ELSE \E i \in 1..Len(j.procs) : KillFails(j.procs[i].pid)

\* the outcomes of the two calls of terminal_give_to_job, which are the
\* terminal's and the kernel's to decide: whether tcsetpgrp succeeds and
\* whether tcsetattr does
TtyOutcomes == [pgrp_ok : BOOLEAN, attr_ok : BOOLEAN]

\* proc.cpp:963, 1089: the jobs job_continue moves the terminal for
OwnsTerminal(j) ==
    job_get_flag(j, "TERMINAL") /\ job_get_flag(j, "FOREGROUND")

\* proc.cpp:872-897 terminal_give_to_job(j, cont): the foreground process
\* group of the terminal as the call leaves it, and what it returns
terminal_give_to_job(j, cont, tty) ==
    [tty_pgrp |-> IF tty.pgrp_ok THEN j.pgid ELSE tty_pgrp,
     ok |-> tty.pgrp_ok /\ (cont => tty.attr_ok)]

\* proc.cpp:905-942 terminal_return_from_job(j): tcsetpgrp(0, getpgrp()),
\* which gives the terminal to the group of the shell
terminal_return_from_job(j) == ShellPid

\* proc.cpp:981: the signal job_continue is asked to send
ContinueSignal(cont) == IF cont THEN "SIGCONT" ELSE "none"

\* a resumption that starts the process afresh
Resumed_Afresh(p) == [p EXCEPT !.stopped = FALSE, !.completed = FALSE]

\* proc.cpp:985-986: p->stopped=0 for each process of a job that is sent
\* SIGCONT
Resumed(p) == [p EXCEPT !.stopped = FALSE]

\* proc.cpp:944-1012 and 1057-1105 job_continue(parser, j, cont) for the
\* job at place n of the list, up to the loop of line 1017, and from the
\* end of the loop for a call that does not enter it
job_continue(n, cont) ==
    /\ Quiet
    /\ fg_loop.pc = "idle"
    /\ n \in 1..Len(job_list)
    /\ \E tty \in TtyOutcomes :
       LET j0 == job_set_flag(job_list[n], "NOTIFIED", FALSE)
           gives == ~job_is_completed(j0) /\ OwnsTerminal(j0)
           given == terminal_give_to_job(j0, cont, tty)
           refused == gives /\ ~given.ok
           resumed == cont /\ ~job_is_completed(j0) /\ ~refused
           j == IF resumed
                THEN [j0 EXCEPT !.procs =
                         [i \in 1..Len(j0.procs) |-> Resumed(j0.procs[i])]]
                ELSE j0
           jl == [job_promote(job_list, n) EXCEPT ![1] = j]
           failed == resumed /\ ContinueFails(j)
           waits == ~job_is_completed(j) /\ ~failed /\ ~refused
                        /\ job_get_flag(j, "FOREGROUND")
           r == ReapNow(jl)
           signalled == IF resumed /\ ~failed THEN Continued(j) ELSE {}
       IN  /\ kernel' = [q \in ProcPids |->
                  IF q \in signalled THEN "running" ELSE kernel[q]]
           /\ tty_pgrp' = IF gives THEN given.tty_pgrp
                          ELSE IF OwnsTerminal(j0)
                          THEN terminal_return_from_job(j0)
                          ELSE tty_pgrp
           /\ IF waits
              THEN /\ job_list' = r.job_list
                   /\ status_map' = r.map
                   /\ fg_loop' = AfterReap(r, [pc |-> "loop",
                                               job |-> j.job_id])
                   /\ proc_last' = [NoProcLast EXCEPT
                          !.op = "job_continue", !.got = r.got,
                          !.sig = ContinueSignal(cont),
                          !.sent = r.sent \cup
                              {[pid |-> q, sig |-> "SIGCONT"] :
                                   q \in signalled}]
                   /\ skip_all_blocks(r.skip_all_blocks)
              ELSE /\ job_list' = jl
                   /\ UNCHANGED <<status_map, fg_loop>>
                   /\ proc_last' = [NoProcLast EXCEPT
                          !.op = "job_continue",
                          !.sig = ContinueSignal(cont),
                          !.sent = {[pid |-> q, sig |-> "SIGCONT"] :
                                        q \in signalled}]
                   /\ skip_all_blocks(FALSE)
    /\ UNCHANGED <<is_interactive_session, parser_rest>>
    /\ UNCHANGED <<jobid_vars, needs_waitpid_gen_count,
                   waitpid_thread_running, child, reapers, jobs, ppc,
                   wait_timeout, wait_result>>
    /\ UNCHANGED <<env_vars, harness_vars, stack_vars, environ>>

\* the place in the job list of the job the foreground loop waits for
LoopJob == CHOOSE n \in 1..Len(job_list) : job_list[n].job_id = fg_loop.job

\* proc.cpp:768-806 select_try: -1 for a job without an IO_BUFFER
\* redirection; otherwise select is called with its timeout of 10 ms and
\* ready tells whether it found data
select_try(j, ready) ==
    IF ~j.buffered THEN -1 ELSE IF ready THEN 1 ELSE 0

\* proc.cpp:1017-1054, one pass of the foreground loop of job_continue from
\* the test of its condition.  forced is reader_exit_forced(), ready what
\* select finds.  A pass whose reap has to sleep on the condition variable
\* is left in "cond_wait".  The pass that leaves the loop goes on to line
\* 1089, where the terminal is returned to the shell.
job_continue_loop(forced, ready) ==
    /\ Quiet
    /\ fg_loop.pc = "loop"
    /\ LET j == job_list[LoopJob]
           sel == select_try(j, ready)
           timeout == AwaitTimeout(sel = -1)
           r == ReapNow(job_list)
       IN  IF forced \/ job_is_stopped(j) \/ job_is_completed(j)
           THEN /\ fg_loop' = MainIdle
                /\ proc_last' = [NoProcLast EXCEPT !.op = "job_continue_end"]
                /\ tty_pgrp' = IF OwnsTerminal(j)
                               THEN terminal_return_from_job(j)
                               ELSE tty_pgrp
                /\ UNCHANGED <<job_list, status_map>>
                /\ skip_all_blocks(FALSE)
           ELSE IF WaitMode(timeout) = "forever" /\ ~NoJobs
                   /\ Claimable(job_list) = -1
           THEN /\ fg_loop' = [fg_loop EXCEPT !.pc = "cond_wait"]
                /\ proc_last' = [NoProcLast EXCEPT
                       !.op = "job_continue_wait", !.sel = sel]
                /\ UNCHANGED <<job_list, status_map, tty_pgrp>>
                /\ skip_all_blocks(FALSE)
           ELSE /\ job_list' = r.job_list
                /\ status_map' = r.map
                /\ fg_loop' = AfterReap(r, fg_loop)
                /\ proc_last' = [NoProcLast EXCEPT
                       !.op = "job_continue_pass", !.sel = sel,
                       !.sent = r.sent, !.got = r.got]
                /\ skip_all_blocks(r.skip_all_blocks)
                /\ UNCHANGED tty_pgrp
    /\ UNCHANGED <<kernel, is_interactive_session, parser_rest>>
    /\ UNCHANGED <<jobid_vars, needs_waitpid_gen_count,
                   waitpid_thread_running, child, reapers, jobs, ppc,
                   wait_timeout, wait_result>>
    /\ UNCHANGED <<env_vars, harness_vars, stack_vars, environ>>

\* job.cpp:345 and 311-332: the sleeping reap of the loop is woken by the
\* broadcast that follows a new status, finds a status of its parser and
\* returns it; a wake that finds none sleeps again
job_continue_woken ==
    /\ Quiet
    /\ fg_loop.pc = "cond_wait"
    /\ Claimable(job_list) # -1
    /\ LET pid == Claimable(job_list)
           h == handle_child_status(job_list, pid, status_map[pid].status)
       IN  /\ job_list' = h.job_list
           /\ status_map' = MapAfterClaim(status_map, pid)
           /\ fg_loop' = IF h.killed THEN [pc |-> "killed", job |-> 0]
                         ELSE [fg_loop EXCEPT !.pc = "loop"]
           /\ proc_last' = [NoProcLast EXCEPT
                  !.op = "job_continue_pass", !.sel = -1,
                  !.sent = h.sent, !.got = TRUE, !.blocked = TRUE]
           /\ skip_all_blocks(h.skip_all_blocks)
    /\ UNCHANGED <<kernel, is_interactive_session, parser_rest>>
    /\ UNCHANGED <<jobid_vars, needs_waitpid_gen_count,
                   waitpid_thread_running, child, reapers, jobs, ppc,
                   wait_timeout, wait_result>>
    /\ UNCHANGED <<env_vars, harness_vars, stack_vars, environ, tty_pgrp>>

\* the call of the main thread returns to its caller
proc_call_returns ==
    /\ ~Quiet
    /\ proc_last' = NoProcLast
    /\ UNCHANGED <<job_list, kernel, is_interactive_session, fg_loop>>
    /\ UNCHANGED <<jobid_vars, store_vars, env_vars, harness_vars,
                   stack_vars, environ, tty_pgrp, parser_vars>>

\* ---- the block stack of the parser and cancellation ----------------------

\* the deepest block stack of a run
MaxBlocks == 3

\* the block types eval_block_node is called with; only TOP and SUBST are
\* allowed (parser.cpp:1125-1126)
EvalTypes == {"TOP", "SUBST", "WHILE"}

\* the blocks the evaluation of a body pushes
InnerTypes == {"WHILE", "FUNCTION_CALL"}

\* parser.cpp:330-384 push_block: the block as it is put on the stack
PushedBlock_Inherits(blocks, type) ==
    [type |-> type,
     skip |-> IF type \in {"TOP", "SUBST"} THEN FALSE
              ELSE blocks # <<>> /\ blocks[Len(blocks)].skip,
     wants_pop_env |-> type \notin {"FUNCTION_DEF", "FAKE", "TOP"}]

PushedBlock(blocks, type) ==
    [type |-> type,
     skip |-> IF type \in {"TOP", "SUBST"} THEN FALSE
              ELSE IF type \in {"FAKE", "FUNCTION_DEF"} THEN TRUE
              ELSE blocks # <<>> /\ blocks[Len(blocks)].skip,
     wants_pop_env |-> type \notin {"FUNCTION_DEF", "FAKE", "TOP"}]

\* env.cpp:1175-1184 push, on the pair [nodes, top]; no variable is set
\* in the runs of the parser, so no node exports and has_changed_exported
\* keeps its value
EnvPushed(e, new_scope) ==
    [nodes |-> Append(e.nodes, env_node_t(new_scope, e.top)),
     top |-> Len(e.nodes) + 1]

\* env.cpp:1186-1240 pop, on the same pair
EnvPopped(e) ==
    IF e.top # GlobalNode
    THEN [nodes |-> SubSeq(e.nodes, 1, Len(e.nodes) - 1),
          top |-> e.nodes[e.top].next]
    ELSE e

\* parser.cpp:386-402 pop_block until depth blocks are left: the blocks
\* and the scope stack
RECURSIVE PopBlocks(_, _, _)
PopBlocks(blocks, e, depth) ==
    IF Len(blocks) <= depth THEN [blocks |-> blocks, env |-> e]
    ELSE PopBlocks(SubSeq(blocks, 1, Len(blocks) - 1),
                   IF blocks[Len(blocks)].wants_pop_env THEN EnvPopped(e)
                   ELSE e,
                   depth)

\* the block as the stack keeps it
Stacked(b, e) ==
    [type |-> b.type, skip |-> b.skip, wants_pop_env |-> b.wants_pop_env,
     env_before |-> e.top]

\* the blocks and the scope stack after push_block
PushBlocks_AlwaysScope(blocks, e, type) ==
    LET b == PushedBlock(blocks, type)
    IN  [blocks |-> Append(blocks, Stacked(b, e)),
         env |-> EnvPushed(e, type = "FUNCTION_CALL")]

PushBlocks(blocks, e, type) ==
    LET b == PushedBlock(blocks, type)
    IN  [blocks |-> Append(blocks, Stacked(b, e)),
         env |-> IF b.wants_pop_env
                 THEN EnvPushed(e, type = "FUNCTION_CALL")
                 ELSE e]

\* a refusal that does not look at the block stack
Refuses_FlagAlone(flag, blocks) == flag

\* parser.cpp:1112-1116: the test under which eval_block_node refuses
Refuses(flag, blocks) == flag /\ blocks # <<>>

\* proc.cpp:495-643 job_reap(parser, interactive) on the job list jl of a
\* parser, called with locked clear: what it leaves and what it has done
JobReaped(jl, interactive) ==
    LET r == ReapNow(jl)
        done == ReapJobs(r.job_list, interactive)
    IN  [job_list |-> IF r.killed THEN r.job_list ELSE done.kept,
         ids |-> IF r.killed THEN consumed_job_ids
                 ELSE ReleaseAll(consumed_job_ids, done.trace),
         map |-> r.map,
         killed |-> r.killed,
         skip_all_blocks |-> r.skip_all_blocks]

\* the main thread is between two calls into the parser
ParserQuiet == parser_last = NoParserLast

\* what the calls of the parser below leave alone
ParserFrame ==
    /\ UNCHANGED <<kernel, is_interactive_session, proc_last>>
    /\ UNCHANGED <<job_id, job_last, needs_waitpid_gen_count,
                   waitpid_thread_running, child, reapers, jobs, ppc,
                   wait_timeout, wait_result>>
    /\ UNCHANGED <<uvars, has_changed_exported, process_umask,
                   env_deadlocked, export_array, env_last>>
    /\ UNCHANGED <<harness_vars, stack_vars, environ, tty_pgrp, locked,
                   reap_pc>>

\* parser.cpp:1102-1142 eval_block_node of the principal parser, from its
\* entry to the push of its scope block; signals are not blocked, so
\* CHECK_BLOCK passes.  A reap that raises SIGINT against the shell ends
\* the process before the push.
eval_block_node(block_type) ==
    /\ ParserQuiet /\ Quiet
    /\ fg_loop.pc = "idle"
    /\ Len(block_stack) < MaxBlocks
    /\ LET refuses == Refuses(cancellation_requested, block_stack)
           allowed == block_type \in {"TOP", "SUBST"}
           reaped == JobReaped(job_list, FALSE)
           skipped == IF reaped.skip_all_blocks
                      THEN SkippedBlocks(block_stack) ELSE block_stack
           pushed == PushBlocks(skipped, [nodes |-> nodes, top |-> top],
                                block_type)
       IN  IF refuses \/ ~allowed
           THEN /\ cancellation_requested' =
                       (cancellation_requested /\ refuses)
                /\ parser_last' = [op |-> "eval_block_node",
                                   thread |-> "main", ret |-> 1,
                                   type |-> block_type,
                                   flag |-> cancellation_requested]
                /\ UNCHANGED <<block_stack, eval_frames, nodes, top,
                               job_list, status_map, consumed_job_ids,
                               fg_loop>>
           ELSE /\ cancellation_requested' = reaped.skip_all_blocks
                /\ job_list' = reaped.job_list
                /\ status_map' = reaped.map
                /\ consumed_job_ids' = reaped.ids
                /\ parser_last' = [op |-> "eval_block_node",
                                   thread |-> "main", ret |-> 0,
                                   type |-> block_type,
                                   flag |-> cancellation_requested]
                /\ IF reaped.killed
                   THEN /\ fg_loop' = [pc |-> "killed", job |-> 0]
                        /\ UNCHANGED <<block_stack, eval_frames, nodes, top>>
                   ELSE /\ block_stack' = pushed.blocks
                        /\ nodes' = pushed.env.nodes
                        /\ top' = pushed.env.top
                        /\ eval_frames' =
                               Append(eval_frames, Len(block_stack))
                        /\ UNCHANGED fg_loop
    /\ UNCHANGED child_parser
    /\ ParserFrame

\* parser.cpp:330-384 push_block
push_block(type) ==
    /\ ParserQuiet /\ Quiet
    /\ fg_loop.pc = "idle"
    /\ Len(block_stack) < MaxBlocks
    /\ LET pushed == PushBlocks(block_stack, [nodes |-> nodes, top |-> top],
                                type)
       IN  /\ block_stack' = pushed.blocks
           /\ nodes' = pushed.env.nodes
           /\ top' = pushed.env.top
    /\ parser_last' = [NoParserLast EXCEPT !.op = "push_block",
                                           !.thread = "main"]
    /\ UNCHANGED <<cancellation_requested, eval_frames, child_parser,
                   job_list, status_map, consumed_job_ids, fg_loop>>
    /\ ParserFrame

\* parser.cpp:386-403 pop_block; flag tells that the stack was empty and
\* the call only reported it
pop_block ==
    /\ ParserQuiet /\ Quiet
    /\ fg_loop.pc = "idle"
    /\ LET e == [nodes |-> nodes, top |-> top]
           popped == IF block_stack = <<>>
                     THEN [blocks |-> block_stack, env |-> e]
                     ELSE PopBlocks(block_stack, e, Len(block_stack) - 1)
       IN  /\ block_stack' = popped.blocks
           /\ nodes' = popped.env.nodes
           /\ top' = popped.env.top
    /\ parser_last' = [NoParserLast EXCEPT !.op = "pop_block",
                                           !.thread = "main",
                                           !.flag = (block_stack = <<>>)]
    /\ UNCHANGED <<cancellation_requested, eval_frames, child_parser,
                   job_list, status_map, consumed_job_ids, fg_loop>>
    /\ ParserFrame

\* parser.cpp:1144-1161 eval_block_node once the body has been evaluated:
\* the scope block and every block left above it are popped, and job_reap
\* is called again
eval_block_node_returns ==
    /\ ParserQuiet /\ Quiet
    /\ fg_loop.pc = "idle"
    /\ eval_frames # <<>>
    /\ LET popped == PopBlocks(block_stack, [nodes |-> nodes, top |-> top],
                               eval_frames[Len(eval_frames)])
           reaped == JobReaped(job_list, FALSE)
       IN  /\ block_stack' = IF reaped.skip_all_blocks
                             THEN SkippedBlocks(popped.blocks)
                             ELSE popped.blocks
           /\ nodes' = popped.env.nodes
           /\ top' = popped.env.top
           /\ cancellation_requested' =
                  (cancellation_requested \/ reaped.skip_all_blocks)
           /\ job_list' = reaped.job_list
           /\ status_map' = reaped.map
           /\ consumed_job_ids' = reaped.ids
           /\ fg_loop' = IF reaped.killed THEN [pc |-> "killed", job |-> 0]
                         ELSE fg_loop
    /\ eval_frames' = SubSeq(eval_frames, 1, Len(eval_frames) - 1)
    /\ parser_last' = [NoParserLast EXCEPT !.op = "eval_block_node_returns",
                                           !.thread = "main"]
    /\ UNCHANGED child_parser
    /\ ParserFrame

\* ---- a child parser on a background thread -------------------------------

\* the block stack the copy constructor gives a child parser
\* (parser.cpp:221): the blocks of the parent, shared, of which what
\* matters to the child is whether there is one
ChildBlocks == IF child_parser.shared > 0 THEN <<"shared">> ELSE <<>>

\* parser.cpp:1236-1256 eval_block_node_in_child, with
\* evaluate_in_context_then_delete (1218-1234): the parser is copied
\* (205-225) and the copy evaluates on an I/O thread; execution being
\* concurrent (1518-1521), the call returns -1 without waiting
eval_block_node_in_child ==
    /\ ParserQuiet /\ Quiet
    /\ fg_loop.pc = "idle"
    /\ eval_frames # <<>>
    /\ child_parser.state = "none"
    /\ child_parser' = [state |-> "made",
                        cancellation_requested |-> cancellation_requested,
                        shared |-> Len(block_stack),
                        job_list |-> <<>>]
    /\ parser_last' = [NoParserLast EXCEPT
           !.op = "eval_block_node_in_child", !.thread = "main", !.ret = -1]
    /\ UNCHANGED <<block_stack, cancellation_requested, eval_frames, nodes,
                   top, job_list, status_map, consumed_job_ids, fg_loop>>
    /\ ParserFrame

\* parser.cpp:1180-1197 run_in_background on the I/O thread, up to the
\* push of the scope block in eval_block_node (1102-1142); the child has
\* no job yet, so its first job_reap finds nothing
child_eval_block_node ==
    /\ ParserQuiet
    /\ fg_loop.pc # "killed"
    /\ child_parser.state = "made"
    /\ child_parser' =
           IF Refuses(child_parser.cancellation_requested, ChildBlocks)
           THEN [child_parser EXCEPT !.state = "finished"]
           ELSE [child_parser EXCEPT !.state = "body",
                                     !.cancellation_requested = FALSE]
    /\ parser_last' = [op |-> "eval_block_node", thread |-> "bg",
                       ret |-> IF child_parser'.state = "body" THEN 0 ELSE 1,
                       type |-> "TOP",
                       flag |-> child_parser.cancellation_requested]
    /\ UNCHANGED <<block_stack, cancellation_requested, eval_frames, nodes,
                   top, job_list, status_map, consumed_job_ids, fg_loop>>
    /\ ParserFrame

\* the child parser launches a job of one child process, as exec_job does
\* for the principal parser; the job goes to the job list of the child
\* parser
child_exec_job(kind) ==
    /\ ParserQuiet
    /\ fg_loop.pc # "killed"
    /\ child_parser.state = "body"
    /\ child_parser.job_list = <<>>
    /\ Cardinality(Forked) < MaxStages
    /\ LET procs == LaunchedProcs(<<"fork">>)
           j == [job_id |-> AcquireResult(consumed_job_ids),
                 pgid |-> LaunchedPgid(procs, kind.flags),
                 flags |-> kind.flags,
                 buffered |-> kind.buffered,
                 procs |-> procs]
       IN  /\ child_parser' = [child_parser EXCEPT !.job_list = <<j>>]
           /\ kernel' = [kernel EXCEPT ![procs[1].pid] = "running"]
    /\ consumed_job_ids' = AcquireVector(consumed_job_ids)
    /\ needs_waitpid_gen_count' = needs_waitpid_gen_count + 1
    /\ waitpid_thread_running' = TRUE
    /\ parser_last' = [NoParserLast EXCEPT !.op = "exec_job",
                                           !.thread = "bg"]
    /\ UNCHANGED <<block_stack, cancellation_requested, eval_frames, locked,
                   reap_pc>>
    /\ UNCHANGED <<job_id, job_last, status_map, child, reapers, jobs, ppc,
                   wait_timeout, wait_result>>
    /\ UNCHANGED <<env_vars, harness_vars, stack_vars, environ, tty_pgrp>>
    /\ UNCHANGED <<job_list, is_interactive_session, fg_loop, proc_last>>

\* parser.cpp:1144-1161 on the I/O thread: the child parser pops its scope
\* block and calls job_reap(this, 0), which reaps for the job list of the
\* child parser (proc.cpp:507, 277-288); handle_child_status calls
\* parser_t::skip_all_blocks (proc.cpp:253), which acts on the principal
\* parser whatever the thread
child_eval_block_node_returns ==
    /\ ParserQuiet
    /\ fg_loop.pc # "killed"
    /\ child_parser.state = "body"
    /\ LET reaped == JobReaped(child_parser.job_list, FALSE)
       IN  /\ child_parser' = [child_parser EXCEPT
                  !.state = "finished", !.job_list = reaped.job_list]
           /\ status_map' = reaped.map
           /\ consumed_job_ids' = reaped.ids
           /\ skip_all_blocks(reaped.skip_all_blocks)
           /\ fg_loop' = IF reaped.killed THEN [pc |-> "killed", job |-> 0]
                         ELSE fg_loop
    /\ parser_last' = [NoParserLast EXCEPT !.op = "eval_block_node_returns",
                                           !.thread = "bg"]
    /\ UNCHANGED <<eval_frames, nodes, top, job_list>>
    /\ ParserFrame

\* ---- job_reap, step by step, on two threads -------------------------------

\* proc.cpp:507: the parser whose job list a call of job_reap reaps, by the
\* thread that runs it
ReapedList(t) == IF t = "main" THEN job_list ELSE child_parser.job_list

\* proc.cpp:506-509: the test of the guard on the value read from locked
GuardRefuses(flag) == flag

\* what the three steps of job_reap below leave alone
ReapFrame ==
    /\ UNCHANGED <<kernel, is_interactive_session, proc_last>>
    /\ UNCHANGED <<job_id, job_last, needs_waitpid_gen_count,
                   waitpid_thread_running, child, reapers, jobs, ppc,
                   wait_timeout, wait_result>>
    /\ UNCHANGED <<env_vars, harness_vars, stack_vars, environ, tty_pgrp>>
    /\ UNCHANGED eval_frames

\* the thread may call job_reap: the main thread between two calls, the
\* I/O thread at the end of eval_block_node of the child parser
\* (parser.cpp:1159)
MayReap(t) ==
    /\ fg_loop.pc = "idle"
    /\ IF t = "main" THEN Quiet ELSE child_parser.state = "body"

\* proc.cpp:495-509: thread t calls job_reap and reads locked, which is a
\* static bool read and written with no lock or atomic.  A call that finds
\* it set returns 0; the call of the I/O thread is the last thing its
\* eval_block_node does.
job_reap_tests(t, interactive) ==
    /\ reap_pc[t].pc = "out"
    /\ MayReap(t)
    /\ t = "bg" => ~interactive
    /\ IF GuardRefuses(locked)
       THEN /\ parser_last' = [NoParserLast EXCEPT !.op = "job_reap_refused",
                                                   !.thread = t]
            /\ child_parser' = IF t = "bg"
                               THEN [child_parser EXCEPT !.state = "finished"]
                               ELSE child_parser
            /\ UNCHANGED reap_pc
       ELSE /\ reap_pc' = [reap_pc EXCEPT
                   ![t] = [pc |-> "read", interactive |-> interactive]]
            /\ parser_last' = [NoParserLast EXCEPT !.op = "job_reap_tests",
                                                   !.thread = t]
            /\ UNCHANGED child_parser
    /\ UNCHANGED <<locked, block_stack, cancellation_requested, job_list,
                   status_map, consumed_job_ids, fg_loop>>
    /\ ReapFrame

\* proc.cpp:510: locked = true
job_reap_locks(t) ==
    /\ reap_pc[t].pc = "read"
    /\ locked' = TRUE
    /\ reap_pc' = [reap_pc EXCEPT ![t].pc = "in"]
    /\ parser_last' = [NoParserLast EXCEPT !.op = "job_reap_locks",
                                           !.thread = t]
    /\ UNCHANGED <<block_stack, cancellation_requested, child_parser,
                   job_list, status_map, consumed_job_ids, fg_loop>>
    /\ ReapFrame

\* proc.cpp:546, 615-616: the handler of an event that the body of thread t
\* fires calls job_reap in its turn.  The nested call reads locked: set, it
\* returns 0 and nothing changes; clear, which another thread alone can
\* have made it, the nested call sets it and does the reaping in place of
\* the call that fired the event.
job_reap_nested(t) ==
    /\ reap_pc[t].pc = "in"
    /\ locked' = TRUE
    /\ parser_last' = [NoParserLast EXCEPT
           !.op = IF GuardRefuses(locked) THEN "job_reap_refused"
                  ELSE "job_reap_locks",
           !.thread = t, !.flag = TRUE]
    /\ UNCHANGED <<reap_pc, block_stack, cancellation_requested,
                   child_parser, job_list, status_map, consumed_job_ids,
                   fg_loop>>
    /\ ReapFrame

\* proc.cpp:512-643: the body of job_reap on thread t, to locked = false
\* and the return
job_reap_body(t) ==
    /\ reap_pc[t].pc = "in"
    /\ LET reaped == JobReaped(ReapedList(t), reap_pc[t].interactive)
       IN  /\ IF t = "main"
              THEN /\ job_list' = reaped.job_list
                   /\ UNCHANGED child_parser
              ELSE /\ child_parser' = [child_parser EXCEPT
                          !.state = "finished",
                          !.job_list = reaped.job_list]
                   /\ UNCHANGED job_list
           /\ status_map' = reaped.map
           /\ consumed_job_ids' = reaped.ids
           /\ skip_all_blocks(reaped.skip_all_blocks)
           /\ fg_loop' = IF reaped.killed THEN [pc |-> "killed", job |-> 0]
                         ELSE fg_loop
    /\ locked' = FALSE
    /\ reap_pc' = [reap_pc EXCEPT ![t] = ReapOut]
    /\ parser_last' = [NoParserLast EXCEPT !.op = "job_reap", !.thread = t]
    /\ ReapFrame

\* the caller of the parser goes on
parser_call_returns ==
    /\ ~ParserQuiet
    /\ parser_last' = NoParserLast
    /\ UNCHANGED <<block_stack, cancellation_requested, eval_frames,
                   child_parser, locked, reap_pc>>
    /\ UNCHANGED <<jobid_vars, store_vars, env_vars, harness_vars,
                   stack_vars, environ, tty_pgrp, proc_vars>>

\* jobs are launched, reaped and signalled while their children run, stop
\* and exit
NextProc ==
    \/ \E shape \in Shapes : \E kind \in JobKinds : exec_job(shape, kind)
    \/ \E q \in ProcPids : child_stops(q)
    \/ \E q \in ProcPids : child_exits(q, "exited")
    \/ reaper_exits
    \/ \E interactive \in BOOLEAN : job_reap(interactive)
    \/ \E n \in 1..MaxJobList : \E signal \in Signals : job_signal(n, signal)
    \/ proc_call_returns

\* one job at a time is launched and waited for in the foreground, while
\* its children run, stop, exit and are killed
NextContinue ==
    \/ \E shape \in Shapes : \E kind \in ForegroundKinds :
           job_list = <<>> /\ exec_job(shape, kind)
    \/ \E q \in ProcPids : child_stops(q)
    \/ \E q \in ProcPids : \E status \in ExitStatuses :
           child_exits(q, status)
    \/ reaper_exits
    \/ \E n \in 1..MaxJobList : \E cont \in BOOLEAN : job_continue(n, cont)
    \/ \E forced \in BOOLEAN : \E ready \in BOOLEAN :
           job_continue_loop(forced, ready)
    \/ job_continue_woken
    \/ proc_call_returns

\* one job at a time is launched, given the terminal and waited for
NextTerminal ==
    \/ \E shape \in {<<"fork">>, <<"fork", "fork">>} :
       \E kind \in TerminalKinds :
           job_list = <<>> /\ exec_job(shape, kind)
    \/ \E q \in ProcPids : child_stops(q)
    \/ \E q \in ProcPids : child_exits(q, "exited")
    \/ reaper_exits
    \/ \E n \in 1..MaxJobList : \E cont \in BOOLEAN : job_continue(n, cont)
    \/ \E forced \in BOOLEAN : job_continue_loop(forced, FALSE)
    \/ job_continue_woken
    \/ proc_call_returns

HarnessInit ==
    /\ env_call = NoCall
    /\ scope_snapshot = NoSnapshot
    /\ env_calls = 0

StoreInit ==
    /\ needs_waitpid_gen_count = 0
    /\ waitpid_thread_running = FALSE
    /\ status_map = EmptyMap
    /\ child = [q \in Pids |-> "none"]
    /\ reapers = <<>>
    /\ jobs = [p \in Parsers |-> <<>>]
    /\ ppc = [p \in Parsers |-> "idle"]
    /\ wait_timeout = [p \in Parsers |-> 0]
    /\ wait_result = [p \in Parsers |-> NoResult]

JobIdInit ==
    /\ consumed_job_ids = <<>>
    /\ job_id = [c \in Callers |-> 0]
    /\ job_last = [op |-> "none", jid |-> 0]

Init ==
    /\ JobIdInit /\ StoreInit /\ EnvInit /\ HarnessInit /\ StacksInit
    /\ environ = NoEnviron
    /\ ProcInit
    /\ is_interactive_session = FALSE

NextJobId ==
    \/ \E c \in Callers : acquire_job_id(c)
    \/ \E c \in Callers : release_job_id(c)

SpecJobId == Init /\ [][NextJobId]_vars

NextStore ==
    \/ \E p \in Parsers, newjob \in BOOLEAN : fork_child(p, newjob)
    \/ \E p \in Parsers, newjob \in BOOLEAN : add_internal_process(p, newjob)
    \/ \E p \in Parsers : child_process_spawned(p)
    \/ \E q \in Pids : child_terminates(q)
    \/ \E i \in 1..MaxReapers : reaper_waitpid(i)
    \/ \E i \in 1..MaxReapers : reaper_locked(i)
    \/ \E p \in Parsers, t \in Timeouts : wait_for_job_in_parser(p, t)
    \/ \E p \in Parsers : wait_woken(p)
    \/ \E p \in Parsers : wait_timed_out(p)
    \/ \E p \in Parsers : cond_spurious_wakeup(p)
    \/ \E p \in Parsers : reap_job_and_apply_exit_status(p)

SpecStore == Init /\ [][NextStore]_vars

\* the caller is between two calls: it holds no result it has not read
Idle == env_last = NoLast

\* one more call, of at most MaxCalls, made once the result of the call
\* before has been read
CountCall ==
    /\ Idle
    /\ env_calls < MaxCalls
    /\ env_calls' = env_calls + 1

\* the caller reads what the call returned and goes on; a call that never
\* returns leaves it waiting
CallerContinues ==
    /\ ~Idle
    /\ env_last.returned
    /\ env_last' = NoLast
    /\ UNCHANGED <<nodes, top, uvars, has_changed_exported, process_umask,
                   env_deadlocked, export_array>>
    /\ UNCHANGED <<jobid_vars, store_vars, harness_vars, later_vars>>

\* the environment calls of the main thread; scope_snapshot follows the
\* sequence push(true), local assignments, pop, and notes whether an
\* assignment changed what a lookup answers
NextEnv ==
    \/ \E new_scope \in BOOLEAN :
          /\ CountCall
          /\ push(new_scope)
          /\ scope_snapshot' = IF new_scope
                               THEN [phase |-> "pushed", saved |-> AllGets,
                                     shadowed |-> FALSE]
                               ELSE NoSnapshot
          /\ UNCHANGED env_call
    \/ \E key \in Keys : \E var_mode \in CallModes(key), val \in SetVals(key) :
          /\ CountCall
          /\ set(key, val, var_mode)
          /\ scope_snapshot' =
                 IF /\ scope_snapshot.phase \in {"pushed", "assigned"}
                    /\ IsLocalMode(var_mode)
                    /\ env_last'.returned
                 THEN [scope_snapshot EXCEPT
                          !.phase = "assigned",
                          !.shadowed = @ \/ AllGets' # scope_snapshot.saved]
                 ELSE NoSnapshot
          /\ UNCHANGED env_call
    \/ /\ CountCall
       /\ pop
       /\ scope_snapshot' = IF scope_snapshot.phase = "assigned"
                            THEN [scope_snapshot EXCEPT !.phase = "popped"]
                            ELSE NoSnapshot
       /\ UNCHANGED env_call
    \/ \E key \in Keys : \E var_mode \in RemoveModes(key) :
          /\ CountCall
          /\ remove(key, var_mode)
          /\ scope_snapshot' = NoSnapshot
          /\ UNCHANGED env_call
    \/ \E recalc \in BOOLEAN :
          /\ CountCall
          /\ update_export_array_if_necessary(recalc)
          /\ scope_snapshot' = NoSnapshot
          /\ UNCHANGED env_call
    \/ CallerContinues

SpecEnv == Init /\ [][NextEnv]_vars

\* one call of set on a fresh stack, its arguments drawn at the start
InitSetArgs ==
    /\ JobIdInit /\ StoreInit /\ EnvInit /\ StacksInit
    /\ environ = NoEnviron
    /\ ProcInit
    /\ is_interactive_session = FALSE
    /\ env_call \in SetArgs
    /\ scope_snapshot = NoSnapshot
    /\ env_calls = 0

NextSetArgs ==
    /\ env_calls = 0
    /\ env_calls' = 1
    /\ set(env_call.key, env_call.val, env_call.mode)
    /\ UNCHANGED <<scope_snapshot, env_call>>

SpecSetArgs == InitSetArgs /\ [][NextSetArgs]_vars

\* the start of the shell with one string in environ: env_init imports
\* it, then the export array is built
InitImport ==
    /\ JobIdInit /\ StoreInit /\ EnvInit /\ HarnessInit /\ StacksInit
    /\ environ \in Environ
    /\ ProcInit
    /\ is_interactive_session = FALSE

NextImport ==
    \/ /\ env_calls = 0
       /\ env_calls' = 1
       /\ env_init_import(environ)
       /\ UNCHANGED <<scope_snapshot, env_call>>
    \/ /\ env_calls = 1
       /\ env_calls' = 2
       /\ update_export_array_if_necessary(TRUE)
       /\ UNCHANGED <<scope_snapshot, env_call>>

SpecImport == InitImport /\ [][NextImport]_vars

\* pushes, pops and child stacks, in any order
NextStacks ==
    \/ \E s \in 1..Len(stacks), new_scope \in BOOLEAN : stack_push(s, new_scope)
    \/ \E s \in 1..Len(stacks) : stack_pop(s)
    \/ \E parent \in 1..Len(stacks) : child_stack(parent)

SpecStacks == Init /\ [][NextStacks]_vars


(***************************************************************************)
(* Job-id allocator: properties                                            *)
(***************************************************************************)
\* ids held: acquired and not yet released
HeldIds == {job_id[c] : c \in Callers} \ {0}

SmallestFree(held) == CHOOSE n \in 1..(MaxJobs + 1) :
    n \notin held /\ \A m \in 1..(n-1) : m \in held

\* C1: every acquire_job_id returns the smallest positive integer that no
\* live job holds, and no two live jobs ever hold the same id.
C1_AcquireSmallestFree ==
    [][ /\ \A c \in Callers :
              (job_id[c] = 0 /\ job_id'[c] # 0)
                  => job_id'[c] = SmallestFree(HeldIds)
        /\ \A c, d \in Callers :
              (c # d /\ job_id'[c] # 0) => job_id'[c] # job_id'[d]
      ]_vars

\* ids 1 and 3 are held, 2 was released, and the acquire just made returned 2
C1_Witness ==
    /\ job_last = [op |-> "acquire", jid |-> 2]
    /\ HeldIds = {1, 2, 3}


(***************************************************************************)
(* Job store: properties                                                   *)
(***************************************************************************)
\* C2: a wait_for_job_in_parser call that returns success returns an entry
\* that was in the map, that no call has returned before, and whose pid
\* belongs to a process of the caller's own parser; two parsers that hold a
\* result at the same time hold different pids.
C2_ClaimedOnceByOwner ==
    /\ \A p \in Parsers :
          (ppc[p] = "returned" /\ wait_result[p].got) =>
              /\ wait_result[p].own
              /\ ~wait_result[p].dup
              /\ wait_result[p].pid \in ParserPids(p)
              /\ wait_result[p].pid \notin DOMAIN status_map
                    \/ ~status_map[wait_result[p].pid].returned
    /\ \A p, q \in Parsers :
          (p # q /\ ppc[p] = "returned" /\ ppc[q] = "returned"
                 /\ wait_result[p].got /\ wait_result[q].got)
              => wait_result[p].pid # wait_result[q].pid

\* both parsers waited at the same time and each has been handed the status
\* of a child of its own
C2_Witness ==
    /\ \A p \in Parsers :
          /\ ppc[p] = "returned"
          /\ wait_result[p].got
          /\ wait_result[p].blocked
    /\ wait_result[1].pid # wait_result[2].pid

\* no process of parser p has a status in the map
NothingToClaim(p) == ParserPids(p) \cap DOMAIN status_map = {}

\* C3: a call with timeout 0 made when no process of the parser has a status
\* in the map returns failure in the same step, never sleeps on the condition
\* variable, and leaves the map as it was.
C3_PollReturnsAtOnce ==
    [][ \A p \in Parsers :
           (ppc[p] = "idle" /\ ppc'[p] # "idle" /\ ppc'[p] # "forked"
                /\ wait_timeout'[p] = 0 /\ NothingToClaim(p))
           => /\ ppc'[p] = "returned"
              /\ ~wait_result'[p].got
              /\ ~wait_result'[p].blocked
              /\ status_map' = status_map
      ]_vars

\* a poll that found the reaper running and the statuses of other parsers'
\* children in the map, and came back empty-handed
C3_Witness ==
    \E p \in Parsers :
        /\ ppc[p] = "returned"
        /\ wait_timeout[p] = 0
        /\ ~wait_result[p].got
        /\ wait_result[p].pid = -1
        /\ ~wait_result[p].blocked
        /\ ParserPids(p) # {}
        /\ DOMAIN status_map # {}
        /\ waitpid_thread_running

\* parser p enters wait_for_job_in_parser in this step
WaitCalled(p) == ppc[p] = "idle" /\ ppc'[p] \notin {"idle", "forked"}

\* C4 as stated: a call with a negative timeout never returns failure.
C4_Original ==
    \A p \in Parsers :
        (ppc[p] = "returned" /\ wait_timeout[p] < 0) => wait_result[p].got

\* C4: a call with a negative timeout returns failure only at once, and only
\* when no reaper is running and the map is empty; when nothing of the parser
\* is in the map but the reaper runs or the map holds something, the call
\* sleeps on the condition variable, and a call that has slept returns only
\* with a status it has claimed.
C4_BlocksUnlessNoJobs ==
    [][ \A p \in Parsers :
           /\ (wait_timeout'[p] < 0 /\ ppc[p] # "returned"
                 /\ ppc'[p] = "returned" /\ ~wait_result'[p].got)
              => (ppc[p] = "idle" /\ ~waitpid_thread_running
                     /\ DOMAIN status_map = {})
           /\ (WaitCalled(p) /\ wait_timeout'[p] < 0 /\ NothingToClaim(p)
                 /\ (waitpid_thread_running \/ DOMAIN status_map # {}))
              => ppc'[p] = "cond_wait"
           /\ (ppc[p] = "woken" /\ wait_timeout[p] < 0 /\ NothingToClaim(p))
              => ppc'[p] \in {"woken", "cond_wait"}
      ]_vars

\* a call with a negative timeout slept, was woken by the reaper and came back
\* with the status of a child of its parser
C4_Witness ==
    \E p \in Parsers :
        /\ ppc[p] = "returned"
        /\ wait_timeout[p] < 0
        /\ wait_result[p].got
        /\ wait_result[p].blocked

(***************************************************************************)
(* Environment stack: properties                                           *)
(***************************************************************************)

\* C5: after push(new_scope = true), assignments set(k, v, ENV_LOCAL) and
\* pop(), every lookup get(k, mode) answers what it answered before the push.
C5_PushSetPopRestoresLookups ==
    scope_snapshot.phase = "popped" =>
        \A a \in Keys \X LookupModes :
            get(a[1], a[2]) = scope_snapshot.saved[a]

\* the sequence has run, the variable had a value before it and the local
\* assignment changed what lookups answered
C5_Witness ==
    /\ scope_snapshot.phase = "popped"
    /\ scope_snapshot.shadowed
    /\ ~scope_snapshot.saved[<<"foo", ENV_DEFAULT>>].missing
    /\ env_last.op = "pop"

\* the node after n as the claims describe it: the parent of a transparent
\* node, the global node after one that opens a scope
Outer(n) == IF nodes[n].new_scope THEN GlobalNode ELSE nodes[n].next

RECURSIVE ChainFrom(_)
ChainFrom(n) == IF n = 0 THEN {} ELSE {n} \cup ChainFrom(Outer(n))

VisibleNodes == ChainFrom(top)

HiddenNodes == (1..Len(nodes)) \ VisibleNodes

Range(path) == {path[i] : i \in 1..Len(path)}

\* the modes that differ in the scopes they name: the walk of a lookup
\* reads no other flag
ScopeModes ==
    {l + g + u : l \in {0, ENV_LOCAL}, g \in {0, ENV_GLOBAL},
                 u \in {0, ENV_UNIVERSAL}}

HasScope(mode) ==
    HasFlag(mode, ENV_LOCAL) \/ HasFlag(mode, ENV_GLOBAL)
        \/ HasFlag(mode, ENV_UNIVERSAL)

\* the values a lookup of key may take from the places it is allowed to see
ValuesIn(visible, key) ==
    {nodes[n].env[key].val : n \in {v \in visible : has_entry(v, key)}}
    \cup {uvars[k].val : k \in DOMAIN uvars \cap {key}}

C6_SameNodes ==
    Idle =>
    LET visible == VisibleNodes IN
    /\ Range(GetPath(top, FALSE, TRUE)) = visible
    /\ Range(ExistPath(top, FALSE, TRUE)) = visible
    /\ Range(TryRemovePath(top, ENV_DEFAULT)) = visible
    /\ Range(GetNamesPath(ENV_DEFAULT)) = visible
    /\ Range(GetExportedPath(top)) = visible
    /\ \A k \in Keys :
          /\ get_node(k) \in visible \cup {0}
          /\ get_node(k) = 0 <=> \A n \in visible : ~has_entry(n, k)
    /\ \A m \in ScopeModes :
          /\ Range(GetPath(IF ~HasScope(m) \/ HasFlag(m, ENV_LOCAL)
                           THEN top ELSE GlobalNode,
                           HasScope(m),
                           ~HasScope(m) \/ HasFlag(m, ENV_GLOBAL)))
                 \subseteq visible
          /\ Range(ExistPath(IF ~HasScope(m) \/ HasFlag(m, ENV_LOCAL)
                             THEN top ELSE GlobalNode,
                             HasScope(m),
                             ~HasScope(m) \/ HasFlag(m, ENV_GLOBAL)))
                 \subseteq visible
    /\ \A m \in ScopeModes :
          /\ Range(GetNamesPath(m)) \subseteq visible
          /\ Range(TryRemovePath(IF HasFlag(m, ENV_GLOBAL) THEN GlobalNode
                                 ELSE top, m)) \subseteq visible

C6_HiddenNeverSeen ==
    Idle =>
    LET visible == VisibleNodes
        values == [k \in Keys |-> ValuesIn(visible, k)]
        exported == get_exported(top)
    IN  /\ \A k \in Keys \ env_electric :
              \A m \in LookupModes :
                  LET found == get(k, m)
                  IN  /\ ~found.missing => found.val \in values[k]
                      /\ exist(k, m) => values[k] # {}
        /\ \A m \in LookupModes :
              \A k \in get_names(m) \ env_electric : values[k] # {}
        /\ \A k \in DOMAIN exported :
              \E n \in visible :
                  /\ has_entry(n, k)
                  /\ nodes[n].env[k].exportv
                  /\ nodes[n].env[k].val = exported[k]

C6_HiddenNeverWritten ==
    \A n \in HiddenNodes : n <= Len(nodes') /\ nodes'[n] = nodes[n]

\* C6: get, exist, the search of set for an existing entry, remove,
\* get_names and the collection of the export array visit the same nodes:
\* from top through the parents of transparent nodes and, from a node that
\* opens a scope, straight to the global node; with a mode that names a
\* scope they visit some of these nodes and no other.  A variable of a
\* non-global node beyond the nearest node that opens a scope is never
\* returned, listed or exported, and no call modifies or removes it.
C6_ScopeBoundary ==
    /\ [](C6_SameNodes /\ C6_HiddenNeverSeen)
    /\ [][C6_HiddenNeverWritten]_vars

\* a variable sits in a hidden node while a call that could have reached it
\* has returned: the lookup does not return it, and it is still there
C6_Witness ==
    /\ \E n \in HiddenNodes :
          /\ has_entry(n, "foo")
          /\ nodes[n].env["foo"].val = <<"a">>
          /\ nodes[n].env["foo"].exportv
    /\ get("foo", ENV_DEFAULT).missing
    /\ "foo" \notin get_names(ENV_DEFAULT)
    /\ "foo" \notin DOMAIN get_exported(top)
    /\ env_last.op = "remove"
    /\ env_last.key = "foo"
    /\ env_last.ret = 1

\* the nearest node from n outwards that holds an exported entry of key
RECURSIVE NearestExported(_, _)
NearestExported(n, key) ==
    IF n = 0 THEN 0
    ELSE IF has_entry(n, key) /\ nodes[n].env[key].exportv THEN n
    ELSE NearestExported(Outer(n), key)

ValueOf(v) == IF v = ENV_NULL THEN missing_var ELSE env_var(v)

\* C7: when k is exported in an outer scope and, with a transparent scope on
\* top, set leaves an unexported k in that inner scope, a lookup that asks
\* for exported variables only still returns the outer exported value.
C7_ExportedSeenThroughUnexported ==
    [][\A k \in Keys :
          (/\ env_last'.op = "set"
           /\ env_last'.key = k
           /\ env_last'.returned
           /\ env_last'.ret = 0
           /\ top # GlobalNode
           /\ ~nodes[top].new_scope
           /\ NearestExported(Outer(top), k) # 0
           /\ \A n \in 1..Len(nodes) : n # top => nodes'[n] = nodes[n]
           /\ uvars' = uvars
           /\ k \in DOMAIN nodes'[top].env
           /\ ~nodes'[top].env[k].exportv)
          => get(k, ENV_EXPORT)' =
                 ValueOf(nodes[NearestExported(Outer(top), k)].env[k].val)
      ]_vars

\* the inner scope holds an unexported entry written by the last call, with
\* another value than the exported one outside
C7_Witness ==
    /\ env_last.op = "set"
    /\ env_last.key = "foo"
    /\ env_last.ret = 0
    /\ top # GlobalNode
    /\ ~nodes[top].new_scope
    /\ has_entry(top, "foo")
    /\ ~nodes[top].env["foo"].exportv
    /\ nodes[top].env["foo"].val = ENV_NULL
    /\ NearestExported(Outer(top), "foo") # 0
    /\ get("foo", ENV_EXPORT) = env_var(<<"a">>)
    /\ get("foo", ENV_DEFAULT).missing

\* the condition under which set reports a scope error
ScopeRefused(key, mode) ==
    \/ /\ HasFlag(mode, ENV_LOCAL) \/ HasFlag(mode, ENV_UNIVERSAL)
       /\ is_read_only(key) \/ is_electric(key)
    \/ HasFlag(mode, ENV_EXPORT) /\ is_electric(key)

\* C8: set returns ENV_SCOPE when ENV_LOCAL or ENV_UNIVERSAL is asked for a
\* read-only or electric name or ENV_EXPORT for an electric name, ENV_PERM
\* when ENV_USER is asked for a read-only name and no scope error applies,
\* ENV_INVALID when the key is umask and the value is not a fully consumed
\* octal number in [0, 0777] (and no scope error applies); the three codes
\* are nonzero and differ from each other.
C8_ErrorCodes ==
    env_calls = 1 =>
        /\ ScopeRefused(env_call.key, env_call.mode) =>
               env_last.returned /\ env_last.ret = ENV_SCOPE
        /\ (/\ ~ScopeRefused(env_call.key, env_call.mode)
            /\ HasFlag(env_call.mode, ENV_USER)
            /\ is_read_only(env_call.key)) =>
               env_last.returned /\ env_last.ret = ENV_PERM
        /\ (/\ ~ScopeRefused(env_call.key, env_call.mode)
            /\ env_call.key = "umask"
            /\ ~UmaskAccepts(env_call.val)) =>
               env_last.returned /\ env_last.ret = ENV_INVALID
        /\ Cardinality({0, ENV_PERM, ENV_SCOPE, ENV_INVALID}) = 4

\* C9: a set call that returns ENV_PERM, ENV_SCOPE or ENV_INVALID leaves
\* every scope node, the universal table, the process umask and the
\* export-dirty flag as they were and fires no VARIABLE event.
C9_ErrorLeavesStateAlone ==
    [][(/\ env_last'.op = "set"
        /\ env_last'.returned
        /\ env_last'.ret # 0)
       => /\ nodes' = nodes
          /\ top' = top
          /\ uvars' = uvars
          /\ process_umask' = process_umask
          /\ has_changed_exported' = has_changed_exported
          /\ ~env_last'.fired
      ]_vars

\* a call has been refused while the stack and the universal table held
\* variables and the export array was up to date
C9_Witness ==
    /\ env_last.op = "set"
    /\ env_last.returned
    /\ env_last.ret = ENV_PERM
    /\ ~has_changed_exported
    /\ "foo" \in DOMAIN uvars

\* the number a string of octal digits writes
RECURSIVE OctalNumber(_)
OctalNumber(s) ==
    IF Len(s) = 0 THEN 0
    ELSE OctalNumber(SubSeq(s, 1, Len(s) - 1)) * 8 + DigitValue(s[Len(s)])

\* a string of octal digits that writes a number of [0, 0777]
IsOctalInRange(s) ==
    /\ Len(s) > 0
    /\ \A i \in 1..Len(s) : IsOctalDigit(s[i])
    /\ OctalNumber(s) <= 7 * 64 + 7 * 8 + 7

\* the canonical rendering: a zero and the three octal digits
CanonicalOctal(n) ==
    <<"0", OctalDigits[((n \div 64) % 8) + 1], OctalDigits[((n \div 8) % 8) + 1],
      OctalDigits[(n % 8) + 1]>>

\* C10: for every octal string s of [0, 0777], set(umask, s) with a mode
\* that names no scope and asks for no export succeeds, get(umask) then
\* returns the canonical octal rendering of s, and neither a scope node nor
\* the universal table holds an entry named umask.
C10_UmaskRoundTrip ==
    (/\ env_calls = 1
     /\ env_call.key = "umask"
     /\ IsOctalInRange(env_call.val)
     /\ ~HasScope(env_call.mode)
     /\ ~HasFlag(env_call.mode, ENV_EXPORT))
    => /\ env_last.returned
       /\ env_last.ret = 0
       /\ get("umask", ENV_DEFAULT)
              = env_var(CanonicalOctal(OctalNumber(env_call.val)))
       /\ \A n \in 1..Len(nodes) : "umask" \notin DOMAIN nodes[n].env
       /\ "umask" \notin DOMAIN uvars

\* set(umask, "7") has returned and the mask reads 0007
C10_Witness ==
    /\ env_calls = 1
    /\ env_call = [key |-> "umask", val |-> <<"7">>, mode |-> ENV_DEFAULT]
    /\ env_last.op = "set"
    /\ env_last.ret = 0
    /\ process_umask = 7
    /\ get("umask", ENV_DEFAULT) = env_var(<<"0", "0", "0", "7">>)


(***************************************************************************)
(* Child stacks: properties                                                *)
(***************************************************************************)

\* the nodes from n along the next references
RECURSIVE ParentChain(_)
ParentChain(n) ==
    IF n = 0 THEN <<>> ELSE <<n>> \o ParentChain(stack_nodes[n].next)

ChainEndsAtGlobal(n) ==
    LET chain == ParentChain(n)
    IN  Len(chain) > 0 /\ chain[Len(chain)] = GlobalNode

C11_PopAtGlobal ==
    \A s \in 1..Len(stacks) :
        (/\ stacks[s].top = GlobalNode
         /\ stack_last'.op = "pop"
         /\ stack_last'.stack = s
         /\ stack_last # stack_last')
        => /\ stack_last'.outcome \in {"sanity_lose", "assert"}
           /\ stack_last'.outcome = "assert" <=> stacks[s].boundary = GlobalNode
           /\ stacks' = stacks
           /\ stack_nodes' = stack_nodes

C11_Chains ==
    \A s \in 1..Len(stacks) :
        /\ ChainEndsAtGlobal(stacks[s].top)
        /\ stacks[s].boundary # 0 =>
               stacks[s].boundary \in Range(ParentChain(stacks[s].top))

\* C11: a pop issued when top is the global node reports a fatal error (the
\* failed assertion when the stack is a child made on the global node,
\* sanity_lose otherwise) and leaves the stack as it was; the boundary of
\* a child stack stays on the parent chain of its top; the parent chain of
\* every top ends at the global node.
C11_PopKeepsGlobal == []C11_Chains /\ [][C11_PopAtGlobal]_vars

\* a child stack made on a pushed node has pushed and popped a node of its
\* own and is refused the pop of its boundary, after the main stack has
\* popped back to the global node
C11_Witness ==
    /\ Len(stacks) >= 2
    /\ stacks[1].top = GlobalNode
    /\ stacks[2].boundary = 2
    /\ stacks[2].top = 2
    /\ Len(stack_nodes) = 3
    /\ stack_nodes[3].next = 2
    /\ stack_last = [op |-> "pop", stack |-> 2, outcome |-> "assert"]

\* C12: no VARIABLE event runs while the environment lock is held: set,
\* remove, pop and update_export_array_if_necessary have released the lock
\* before an event they fire runs.
C12_NoEventUnderLock == ~env_last.locked

\* C13: a call of update_export_array_if_necessary leaves the dirty flag
\* clear, and a call that finds it clear, as the second of two calls in a
\* row does, leaves the export array as it is and does not build it anew.
C13_SecondUpdateIsIdle ==
    [][env_last'.op = "update_export_array_if_necessary" =>
          /\ ~has_changed_exported'
          /\ IF has_changed_exported
             THEN /\ env_last'.key = "rebuilt"
                  /\ export_array' = export_func(ExportedValues)
             ELSE /\ env_last'.key = ""
                  /\ export_array' = export_array
      ]_vars

\* three calls have been made and the last, an update, has not built the
\* array, which holds foo: the calls were a set, the update that built the
\* array and cleared the flag, and this second update
C13_Witness ==
    /\ env_calls = 3
    /\ env_last.op = "update_export_array_if_necessary"
    /\ env_last.key = ""
    /\ export_array = <<<<"foo", "=", "a">>>>
    /\ ~has_changed_exported

(***************************************************************************)
(* Import and export of colon-delimited variables: properties              *)
(***************************************************************************)

\* the value holds no raw separator character
ColonSeparated(val) == \A i \in 1..Len(val) : val[i] # ARRAY_SEP

\* the string of environ has been imported and the export array built
Exported ==
    /\ env_calls = 2
    /\ environ.eql
    /\ ~is_read_only(environ.key)
    /\ ~is_electric(environ.key)

\* C14: for PATH, MANPATH and CDPATH a colon-separated value of environ is
\* stored with the separator character in place of each colon and the
\* export array built afterwards holds KEY=value with the colons restored;
\* for another name the stored value is the string emitted.
C14_ColonsRestored ==
    Exported =>
        LET stored == nodes[GlobalNode].env[environ.key].val
        IN  IF variable_is_colon_delimited_array(environ.key)
            THEN ColonSeparated(environ.val) =>
                    /\ \A i \in 1..Len(stored) :
                          /\ stored[i] # ":"
                          /\ stored[i] = ARRAY_SEP <=> environ.val[i] = ":"
                    /\ export_array =
                           <<<<environ.key, "=">> \o environ.val>>
            ELSE export_array = <<<<environ.key, "=">> \o stored>>

\* PATH=/b:/ has been imported and exported again
C14_Witness ==
    /\ Exported
    /\ environ.key = "PATH"
    /\ environ.val = <<"/", ":", "b">>
    /\ nodes[GlobalNode].env["PATH"].val = <<"/", ARRAY_SEP, "b">>
    /\ export_array = <<<<"PATH", "=", "/", ":", "b">>>>

SpecProc == Init /\ [][NextProc]_vars

\* the shell starts with no job and no child, interactive or not
InitContinue ==
    /\ JobIdInit /\ StoreInit /\ EnvInit /\ HarnessInit /\ StacksInit
    /\ environ = NoEnviron
    /\ ProcInit
    /\ is_interactive_session \in BOOLEAN

SpecContinue == InitContinue /\ [][NextContinue]_vars

\* the pids whose status the step takes out of the status map: the claim
\* of a wait_for_job_in_parser call
ClaimedInStep == (DOMAIN status_map) \ (DOMAIN status_map')

\* the places of the job list whose job the step takes out of the list
RemovedInStep ==
    {n \in 1..Len(job_list) :
        \A k \in 1..Len(job_list') :
            job_list'[k].job_id # job_list[n].job_id}

\* the pids the last call has sent SIGPIPE to
Piped(sent) == {x.pid : x \in {y \in sent : y.sig = "SIGPIPE"}}

C15_Step ==
    \A q \in ClaimedInStep :
        Located(job_list, q) # {} =>
            LET m == FirstMatch(job_list, q)
                procs == job_list[m[1]].procs
                i == m[2]
            IN  IF WIFSTOPPED(status_map[q].status)
                THEN proc_last'.sent = {}
                ELSE /\ \/ m[1] \in RemovedInStep
                        \/ \E k \in 1..Len(job_list') :
                               /\ Len(job_list'[k].procs) >= i
                               /\ job_list'[k].procs[i].pid = q
                               /\ job_list'[k].procs[i].completed
                     /\ Piped(proc_last'.sent) =
                            IF i > 1 /\ ~procs[i - 1].completed
                                     /\ procs[i - 1].pid # 0
                            THEN {procs[i - 1].pid}
                            ELSE {}

\* C15: when a reaped status marks a process completed, SIGPIPE goes to the
\* process just before it in its pipeline if and only if that one is not
\* completed and has a nonzero pid, and to no other process; a status that
\* is a stop sends nothing.
C15_SigpipeRule == [][C15_Step]_vars

\* the exit of the second stage of a pipeline has been reaped while the
\* first was running, and the first has been sent SIGPIPE
C15_Witness ==
    /\ proc_last.op = "job_reap"
    /\ proc_last.sent = {[pid |-> 1, sig |-> "SIGPIPE"]}
    /\ Len(job_list) = 1
    /\ Len(job_list[1].procs) = 2
    /\ job_list[1].procs[1].pid = 1
    /\ ~job_list[1].procs[1].completed
    /\ job_list[1].procs[2].completed

\* the step reaps the exit of B in a job A | B | C of three children while
\* A has not completed
ReapsMiddleStage(n) ==
    /\ n \in 1..Len(job_list)
    /\ Len(job_list[n].procs) = 3
    /\ \A i \in 1..3 : job_list[n].procs[i].pid # 0
    /\ job_list[n].procs[2].pid \in ClaimedInStep
    /\ status_map[job_list[n].procs[2].pid].status = "exited"
    /\ ~job_list[n].procs[1].completed

C16_AmendedStep ==
    \A n \in 1..MaxJobList :
        ReapsMiddleStage(n) =>
            proc_last'.sent =
                {[pid |-> job_list[n].procs[1].pid, sig |-> "SIGPIPE"]}

\* C16, as amended: in a job A | B | C, when B is reaped as exited while A
\* has not yet completed, SIGPIPE is sent to A and to no other process.
C16_WriterSignalled == [][C16_AmendedStep]_vars

C16_OriginalStep ==
    \A n \in 1..MaxJobList :
        ReapsMiddleStage(n) =>
            job_list[n].procs[1].pid \notin Piped(proc_last'.sent)

\* C16, as stated: in a job A | B | C, when B is reaped as exited while A
\* has not yet completed, no SIGPIPE is sent to A.
C16_Original == [][C16_OriginalStep]_vars

\* B of A | B | C has been reaped first and A alone has been signalled
C16_Witness ==
    /\ proc_last.op = "job_reap"
    /\ Len(job_list) = 1
    /\ Len(job_list[1].procs) = 3
    /\ job_list[1].procs[2].completed
    /\ job_list[1].procs[2].pid # 0
    /\ ~job_list[1].procs[1].completed
    /\ ~job_list[1].procs[3].completed
    /\ job_list[1].procs[3].pid # 0
    /\ proc_last.sent =
           {[pid |-> job_list[1].procs[1].pid, sig |-> "SIGPIPE"]}

\* job id jid is not taken in the vector v
IdFree(v, jid) == jid > Len(v) \/ ~v[jid]

C17_Step ==
    /\ \A n \in 1..Len(job_list) :
           (/\ ~IdFree(consumed_job_ids, job_list[n].job_id)
            /\ IdFree(consumed_job_ids', job_list[n].job_id))
               => n \in RemovedInStep
    /\ RemovedInStep # {} =>
           LET tr == proc_last'.trace IN
           /\ proc_last'.op = "job_reap"
           /\ Cardinality({k \in 1..Len(tr) : tr[k].msg = "JOB_EXIT"})
                  = 2 * Cardinality(RemovedInStep)
           /\ \A n \in RemovedInStep :
                  LET j == job_list[n] IN
                  /\ \A i \in 1..Len(j.procs) :
                         \/ j.procs[i].completed
                         \/ /\ j.procs[i].pid \in ClaimedInStep
                            /\ ~WIFSTOPPED(status_map[j.procs[i].pid].status)
                  /\ IdFree(consumed_job_ids', j.job_id)
                  /\ \E k \in 3..Len(tr) :
                         /\ tr[k] = Freed(j)
                         /\ tr[k - 2] =
                                ProcEvent("JOB_EXIT", "EVENT_EXIT", -j.pgid)
                         /\ tr[k - 1] =
                                ProcEvent("JOB_EXIT", "EVENT_JOB_ID", j.job_id)

C19_DeliversCallerSignal ==
    proc_last.op = "job_signal" =>
        \A x \in proc_last.sent : x.sig = proc_last.sig

\* C18: the foreground loop of job_continue does not spin: every pass made
\* while the job is neither stopped nor completed either calls select with
\* its timeout of 10 ms, or makes the reap that waits on the condition
\* variable of the job store, and that reap comes back only with a status
\* it has claimed, not empty-handed.
C18_EveryPassWaits ==
    proc_last.op = "job_continue_pass" =>
        proc_last.sel >= 0 \/ proc_last.got

\* the nodes from a node down to the global one, in the order of the links
RECURSIVE DownChain(_)
DownChain(node) ==
    IF node = 0 THEN <<>> ELSE <<node>> \o DownChain(nodes[node].next)

\* the first node of the chain from top that opens a scope, the last node
\* of the chain if none does
ShadowingScope ==
    LET c == DownChain(top)
        opens == {k \in 1..Len(c) : nodes[c[k]].new_scope \/ k = Len(c)}
    IN  c[CHOOSE k \in opens : \A l \in opens : k <= l]

\* the step is a call set(key, val, 0) that returns 0, for a name that is
\* neither read-only nor electric and that no node on the way from top and
\* no universal variable has
SetsNewDefault(key, val) ==
    /\ ~is_read_only(key)
    /\ ~is_electric(key)
    /\ get_node(key) = 0
    /\ uvars_get(key).missing
    /\ env_last'.op = "set"
    /\ env_last'.returned
    /\ env_last'.ret = 0
    /\ set(key, val, ENV_DEFAULT)

C20_AmendedStep ==
    \A key \in Keys : \A val \in SetVals(key) :
        SetsNewDefault(key, val) =>
            /\ nodes' = [nodes EXCEPT ![ShadowingScope].env =
                   MapPut(@, key,
                          [val |-> IF val = NullVal THEN ENV_NULL ELSE val,
                           exportv |-> FALSE])]
            /\ uvars' = uvars
            /\ nodes' = SetOutcome(key, val, ENV_LOCAL).nodes
                   <=> ShadowingScope = top

C20_OriginalStep ==
    \A key \in Keys : \A val \in SetVals(key) :
        SetsNewDefault(key, val)
            => /\ nodes' = SetOutcome(key, val, ENV_LOCAL).nodes
               /\ uvars' = SetOutcome(key, val, ENV_LOCAL).uvars

InitParser ==
    /\ JobIdInit /\ StoreInit /\ EnvInit /\ StacksInit /\ HarnessInit
    /\ environ = NoEnviron
    /\ ProcInit
    /\ is_interactive_session \in BOOLEAN

NextParser ==
    \/ \E block_type \in EvalTypes : eval_block_node(block_type)
    \/ \E type \in InnerTypes : eval_frames # <<>> /\ push_block(type)
    \/ eval_block_node_returns
    \/ parser_call_returns
    \/ \E kind \in ForegroundKinds :
           ParserQuiet /\ job_list = <<>> /\ exec_job(<<"fork">>, kind)
    \/ \E q \in ProcPids : \E status \in ExitStatuses :
           ParserQuiet /\ child_exits(q, status)
    \/ ParserQuiet /\ reaper_exits
    \/ ParserQuiet /\ job_reap(TRUE)
    \/ ParserQuiet /\ proc_call_returns

SpecParser == InitParser /\ [][NextParser]_vars

\* the principal parser evaluates and hands an evaluation to a child parser,
\* which launches a job of one child and reaps it on its own thread
NextChild ==
    \/ \E block_type \in EvalTypes : eval_block_node(block_type)
    \/ eval_block_node_returns
    \/ eval_block_node_in_child
    \/ child_eval_block_node
    \/ \E kind \in ForegroundKinds : child_exec_job(kind)
    \/ child_eval_block_node_returns
    \/ parser_call_returns
    \/ \E q \in ProcPids : \E status \in ExitStatuses :
           ParserQuiet /\ child_exits(q, status)
    \/ ParserQuiet /\ reaper_exits

SpecChild == InitParser /\ [][NextChild]_vars

\* no thread is in job_reap
NoneReaps == \A t \in Threads : reap_pc[t].pc = "out"

\* the main thread and the I/O thread of a child parser each launch a job
\* of one child and call job_reap, whose steps interleave
NextReap ==
    \/ NoneReaps /\ eval_block_node("TOP")
    \/ NoneReaps /\ eval_block_node_in_child
    \/ child_eval_block_node
    \/ \E kind \in ForegroundKinds : child_exec_job(kind)
    \/ \E kind \in ForegroundKinds :
           NoneReaps /\ job_list = <<>> /\ exec_job(<<"fork">>, kind)
    \/ \E q \in ProcPids : child_exits(q, "exited")
    \/ reaper_exits
    \/ proc_call_returns
    \/ parser_call_returns
    \/ \E t \in Threads : \E interactive \in BOOLEAN :
           job_reap_tests(t, interactive)
    \/ \E t \in Threads : job_reap_locks(t)
    \/ \E t \in Threads : job_reap_nested(t)
    \/ \E t \in Threads : job_reap_body(t)

SpecReap == InitParser /\ [][NextReap]_vars

\* the step is a call of eval_block_node by the main thread
EvalEntry ==
    /\ parser_last.op = "none"
    /\ parser_last'.op = "eval_block_node"
    /\ parser_last'.thread = "main"

\* the step takes from the status map the status of a child that SIGINT
\* killed, in an interactive session: skip_all_blocks is called anew
NewRequest ==
    /\ is_interactive_session
    /\ \E q \in ClaimedInStep : status_map[q].status = "sigint"

C21_Step ==
    (EvalEntry /\ cancellation_requested) =>
        IF block_stack # <<>>
        THEN /\ parser_last'.ret = 1
             /\ cancellation_requested'
             /\ UNCHANGED <<block_stack, eval_frames, job_list, status_map,
                            nodes, top>>
        ELSE /\ cancellation_requested' => NewRequest
             /\ parser_last'.type \in {"TOP", "SUBST"} =>
                    /\ parser_last'.ret = 0
                    /\ \/ fg_loop'.pc = "killed"
                       \/ /\ Len(block_stack') = 1
                          /\ block_stack'[1].type = parser_last'.type
                          /\ ~block_stack'[1].skip
                          /\ eval_frames' = Append(eval_frames, 0)

\* C21: with cancellation requested, eval_block_node called on a parser
\* whose block stack is not empty returns 1, pushes no block and leaves the
\* flag set; called on an empty block stack it clears the flag and goes on
\* as it does without a request, pushing its scope block, so that the flag
\* is set after the call only if the call's own reap has requested
\* cancellation anew.
C21_CancellationConsumed == [][C21_Step]_vars

\* eval_block_node has found the flag set and the block stack empty, has
\* cleared the flag and has pushed its scope block
C21_Witness ==
    /\ parser_last.op = "eval_block_node"
    /\ parser_last.flag
    /\ parser_last.ret = 0
    /\ ~cancellation_requested
    /\ Len(block_stack) = 1
    /\ eval_frames = <<0>>

\* C30: a step that sets the cancellation flag of the principal parser, or
\* the skip flag of one of its blocks, is not a step of the background
\* thread.
C30_OnlyMainThreadSkips ==
    [][(\/ ~cancellation_requested /\ cancellation_requested'
        \/ /\ Len(block_stack') = Len(block_stack)
           /\ \E i \in 1..Len(block_stack) :
                  ~block_stack[i].skip /\ block_stack'[i].skip)
           => parser_last'.thread # "bg"]_vars

\* reaper task i has the result of its waitpid call and takes the lock
\* in this step
ReaperHandles(i) ==
    /\ i \in 1..Len(reapers)
    /\ reapers[i].pc = "got"
    /\ \/ reapers' = RemoveAt(reapers, i)
       \/ /\ Len(reapers') = Len(reapers)
          /\ reapers'[i].pc # "got"

\* reaper task i ends in this step
ReaperLeaves(i) ==
    /\ i \in 1..Len(reapers)
    /\ reapers' = RemoveAt(reapers, i)

C22_Step ==
    /\ \A i \in 1..Len(reapers) :
           ReaperHandles(i) =>
               /\ ReaperLeaves(i) <=>
                      /\ reapers[i].pid < 0
                      /\ reapers[i].err = "ECHILD"
                      /\ reapers[i].prewait_gen_count =
                             needs_waitpid_gen_count
               /\ ~ReaperLeaves(i) =>
                      /\ reapers'[i].pc = "waitpid"
                      /\ waitpid_thread_running' = waitpid_thread_running
    /\ \A i \in 1..Len(reapers) :
           ReaperLeaves(i) => reapers[i].pc = "got" /\ ~waitpid_thread_running'
    /\ (waitpid_thread_running /\ ~waitpid_thread_running') =>
           \E i \in 1..Len(reapers) : ReaperLeaves(i)

\* C22: a reaper task ends only in the step in which it takes the lock after
\* a waitpid call that failed with ECHILD, with the generation count equal
\* to the one it read before the call; after a reaped pid, EINTR, or ECHILD
\* with a count that has moved on it goes back to waitpid and leaves
\* waitpid_thread_running alone; the flag is cleared in the step in which a
\* reaper ends and in no other.
C22_ReaperExitRule == [][C22_Step]_vars

\* a reaper has ended after children were announced: the flag is clear and
\* no reaper task is left
C22_Witness ==
    /\ needs_waitpid_gen_count > 0
    /\ ~waitpid_thread_running
    /\ reapers = <<>>

\* the children child_process_spawned has returned for: those of the job
\* lists but the one a parser has forked and not yet announced
Announced ==
    {q \in Pids : \E p \in Parsers :
        /\ q \in ParserPids(p)
        /\ ~(ppc[p] = "forked" /\ \A r \in ParserPids(p) : r <= q)}

\* the children whose status has not been put into the status map: waitpid
\* has not reported them, or the reaper that holds the report has not yet
\* taken the lock
NotInserted ==
    {q \in Pids :
        \/ child[q] \in {"running", "zombie"}
        \/ \E i \in 1..Len(reapers) :
               reapers[i].pc = "got" /\ reapers[i].pid = q}

\* C23: while a child has been announced with child_process_spawned and
\* its status has not been put into the status map, waitpid_thread_running
\* is set and a reaper task is running or scheduled.
C23_ReaperStaysForAnnounced ==
    (Announced \cap NotInserted # {}) =>
        /\ waitpid_thread_running
        /\ \E i \in 1..Len(reapers) :
               reapers[i].pc \in {"start", "waitpid", "got"}

\* a reaper holds an ECHILD from a waitpid call made before a child was
\* forked and announced; the child is unreaped
C23_Witness ==
    /\ Announced \cap NotInserted # {}
    /\ \E i \in 1..Len(reapers) :
           /\ reapers[i].pc = "got"
           /\ reapers[i].err = "ECHILD"
           /\ reapers[i].prewait_gen_count # needs_waitpid_gen_count

\* C24: the job store has at most one reaper task, it has one exactly when
\* waitpid_thread_running is set, and no reaper task has failed the
\* assertion at the top of its loop.
C24_OneReaper ==
    /\ Len(reapers) <= 1
    /\ waitpid_thread_running <=> Len(reapers) = 1
    /\ \A i \in 1..Len(reapers) : reapers[i].pc # "assert_failed"

\* a reaper has been started after an earlier one reaped a child and ended
C24_Witness ==
    /\ Len(reapers) = 1
    /\ reapers[1].pc = "start"
    /\ \E q \in Pids : child[q] = "reaped"

\* the threads of the shell go on when they can: a reaper task calls
\* waitpid and takes the lock again, a woken waiter takes the lock, a
\* caller reads its result and announces the child it has forked.  Nothing
\* makes a child end, a parser fork or wait, or a wait wake without cause.
FairStore ==
    /\ WF_vars(\E i \in 1..MaxReapers : reaper_waitpid(i))
    /\ WF_vars(\E i \in 1..MaxReapers : reaper_locked(i))
    /\ WF_vars(\E p \in Parsers : wait_woken(p))
    /\ WF_vars(\E p \in Parsers : reap_job_and_apply_exit_status(p))
    /\ WF_vars(\E p \in Parsers : child_process_spawned(p))

SpecStoreFair == Init /\ [][NextStore]_vars /\ FairStore

\* C25: a thread that sleeps in wait_for_job_in_parser with a negative
\* timeout while no reaper is running, the shell having no child left,
\* returns from the call.
C25_WaiterReleased ==
    \A p \in Parsers :
        (/\ ppc[p] = "cond_wait"
         /\ wait_timeout[p] < 0
         /\ ~waitpid_thread_running
         /\ Unwaited = {})
            ~> (ppc[p] = "returned")


\* C26: a call of job_reap made while another invocation is in progress
\* returns 0 at once: no thread gets past the guard of job_reap in a step
\* that starts with another thread inside job_reap, and when no thread is
\* inside job_reap locked is clear.
C26_PastGuard(t) ==
    /\ reap_pc[t].pc = "out"
    /\ reap_pc'[t].pc # "out"

C26_Step ==
    /\ \A t \in Threads :
           C26_PastGuard(t)
               => \A u \in Threads \ {t} : reap_pc[u].pc = "out"
    /\ NoneReaps' => ~locked'

C26_GuardExcludes == [][C26_Step]_vars


\* the processes of the job list for which PROCESS_EXIT has been fired
ExitFired(jl) ==
    {jl[m[1]].procs[m[2]].pid :
        m \in {n \in (1..Len(jl)) \X (1..MaxStages) :
                  /\ n[2] <= Len(jl[n[1]].procs)
                  /\ jl[n[1]].procs[n[2]].exit_fired}}

\* C27: PROCESS_EXIT is fired at most once for each process of a job: a
\* call of job_reap fires no PROCESS_EXIT for a process for which an
\* earlier call has fired it.
C27_Step ==
    (proc_last.op = "none" /\ proc_last'.op = "job_reap")
        => \A k \in 1..Len(proc_last'.trace) :
               proc_last'.trace[k].msg = "PROCESS_EXIT"
                   => proc_last'.trace[k].key \notin ExitFired(job_list)

C27_ProcessExitOnce == [][C27_Step]_vars


SpecTerminal == InitContinue /\ [][NextTerminal]_vars

\* the step is a return of job_continue to its caller
ContinueReturns ==
    /\ proc_last.op = "none"
    /\ \/ proc_last'.op = "job_continue" /\ fg_loop'.pc = "idle"
       \/ proc_last'.op = "job_continue_end"

\* C28: when job_continue returns, on any path, the terminal belongs to
\* the process group of the shell again.
C28_Step == ContinueReturns => tty_pgrp' = ShellPid

C28_TerminalReturned == [][C28_Step]_vars


\* job.cpp:85-118: the state of a job as job_is_completed and
\* job_is_stopped tell it
JobState(j) ==
    IF job_is_completed(j) THEN "completed"
    ELSE IF job_is_stopped(j) THEN "stopped"
    ELSE "running"

\* the step is a call of job_continue with cont set
ContinuesWithCont ==
    /\ proc_last.op = "none"
    /\ proc_last'.op = "job_continue"
    /\ proc_last'.sig = "SIGCONT"

\* C29: for a job that a step leaves in the job list, no process loses its
\* completed flag, so a completed job stays completed; a process loses its
\* stopped flag, and a stopped job becomes a running one, only in a call of
\* job_continue with cont set; and the job goes from running to stopped,
\* from stopped to running, or from either to completed, or stays as it is.
C29_Step ==
    \A a \in 1..Len(job_list) : \A b \in 1..Len(job_list') :
        job_list[a].job_id = job_list'[b].job_id
            => LET j == job_list[a]
                   k == job_list'[b]
               IN  /\ Len(k.procs) = Len(j.procs)
                   /\ \A i \in 1..Len(j.procs) :
                          /\ j.procs[i].completed => k.procs[i].completed
                          /\ (j.procs[i].stopped /\ ~k.procs[i].stopped)
                                 => ContinuesWithCont
                   /\ JobState(j) = "completed" => JobState(k) = "completed"
                   /\ (JobState(j) = "stopped" /\ JobState(k) = "running")
                          => ContinuesWithCont

C29_JobStates == [][C29_Step]_vars

\* job_continue with cont set has resumed a stopped pipeline of which one
\* process had completed: the job runs and the process is still completed
C29_Witness ==
    /\ proc_last.op = "job_continue"
    /\ proc_last.sig = "SIGCONT"
    /\ \E q \in ProcPids : [pid |-> q, sig |-> "SIGCONT"] \in proc_last.sent
    /\ job_list # <<>>
    /\ JobState(job_list[1]) = "running"
    /\ \E i \in 1..Len(job_list[1].procs) : job_list[1].procs[i].completed
    /\ \E i \in 1..Len(job_list[1].procs) :
           /\ job_list[1].procs[i].status = "stopped"
           /\ ~job_list[1].procs[i].stopped


\* C31: no environment operation locks s_env_lock while the calling thread
\* holds it: no call is ever left waiting for the lock it holds itself.
C31_NoSelfDeadlock == ~env_deadlocked


ExportVals == {<<"a">>, <<"b">>, NullVal}

\* the mode names no scope
NoScopeFlag(var_mode) ==
    /\ ~HasFlag(var_mode, ENV_LOCAL)
    /\ ~HasFlag(var_mode, ENV_GLOBAL)
    /\ ~HasFlag(var_mode, ENV_UNIVERSAL)

\* no node a lookup sees from top and no universal variable has the key
Unheld(key) == get_node(key) = 0 /\ uvars_get(key).missing

Pushed == [phase |-> "pushed", saved |-> <<>>, shadowed |-> FALSE]

\* the calls that decide what is exported: scopes pushed and popped, an
\* ordinary variable set and removed in every scope, and the array rebuilt.
\* scope_snapshot follows the sequence push(false), set of a key nothing
\* holds with no scope named, pop, and keeps the value given to set; it also
\* notes a set with no scope named of a key that the universal table alone
\* holds, with the export flag the variable had.
NextExport ==
    \/ \E new_scope \in BOOLEAN :
          /\ CountCall
          /\ push(new_scope)
          /\ scope_snapshot' = IF new_scope THEN NoSnapshot ELSE Pushed
          /\ UNCHANGED env_call
    \/ \E var_mode \in VarModes, val \in ExportVals :
          /\ CountCall
          /\ set("foo", val, var_mode)
          /\ scope_snapshot' =
                 IF /\ scope_snapshot.phase = "pushed"
                    /\ NoScopeFlag(var_mode)
                    /\ Unheld("foo")
                    /\ env_last'.returned
                    /\ env_last'.ret = 0
                 THEN [phase |-> "assigned", saved |-> val,
                       shadowed |-> FALSE]
                 ELSE IF /\ NoScopeFlag(var_mode)
                         /\ get_node("foo") = 0
                         /\ ~uvars_get("foo").missing
                         /\ env_last'.returned
                         /\ env_last'.ret = 0
                 THEN [phase |-> "through", saved |-> val,
                       shadowed |-> uvars_get_export("foo")]
                 ELSE NoSnapshot
          /\ UNCHANGED env_call
    \/ /\ CountCall
       /\ pop
       /\ scope_snapshot' = IF scope_snapshot.phase = "assigned"
                            THEN [scope_snapshot EXCEPT !.phase = "popped"]
                            ELSE NoSnapshot
       /\ UNCHANGED env_call
    \/ \E var_mode \in RemoveModes("foo") :
          /\ CountCall
          /\ remove("foo", var_mode)
          /\ scope_snapshot' = NoSnapshot
          /\ UNCHANGED env_call
    \/ \E recalc \in BOOLEAN :
          /\ CountCall
          /\ update_export_array_if_necessary(recalc)
          /\ scope_snapshot' = NoSnapshot
          /\ UNCHANGED env_call
    \/ CallerContinues

SpecExport == Init /\ [][NextExport]_vars

\* the nodes a lookup sees from top: each node, then the global node after a
\* scope boundary and the parent otherwise
RECURSIVE VisibleChain(_)
VisibleChain(n) ==
    IF n = 0 THEN <<>> ELSE <<n>> \o VisibleChain(next_scope(n))

\* the positions of the visible chain whose entry of k is exported and holds
\* a value
ExportedHolders(k) ==
    LET chain == VisibleChain(top)
    IN  {i \in 1..Len(chain) :
            /\ has_entry(chain[i], k)
            /\ nodes[chain[i]].env[k].exportv
            /\ nodes[chain[i]].env[k].val # ENV_NULL}

\* the value of the most local of them
MostLocalExported(k) ==
    LET chain == VisibleChain(top)
        i == CHOOSE i \in ExportedHolders(k) :
                 \A j \in ExportedHolders(k) : i <= j
    IN  nodes[chain[i]].env[k].val

UniversalExported(k) ==
    k \in DOMAIN uvars /\ uvars[k].exportv /\ uvars[k].val # ENV_NULL

MostLocalExports ==
    LET held == {k \in Keys : ExportedHolders(k) # {}}
        uni == {k \in Keys : UniversalExported(k)} \ held
    IN  [k \in held \cup uni |->
            IF k \in held THEN MostLocalExported(k) ELSE uvars[k].val]

JustRebuilt ==
    /\ env_last.op = "update_export_array_if_necessary"
    /\ env_last.key = "rebuilt"

\* C33: a rebuilt export array holds, for each key, the value of the most
\* local exported non-null entry of the visible chain, and the universal
\* exported value only for the keys no such entry provides.
C33_MostLocalExported ==
    JustRebuilt => export_array = export_func(MostLocalExports)

\* the array was rebuilt while a scope above the global one held an exported
\* value of a key that the global node or the universal table exports with
\* another value
C33_Witness ==
    /\ JustRebuilt
    /\ \E k \in Keys :
           /\ ExportedHolders(k) # {}
           /\ VisibleChain(top)[CHOOSE i \in ExportedHolders(k) :
                   \A j \in ExportedHolders(k) : i <= j] # GlobalNode
           /\ \/ UniversalExported(k) /\ uvars[k].val # MostLocalExported(k)
              \/ \E j \in ExportedHolders(k) :
                     nodes[VisibleChain(top)[j]].env[k].val
                         # MostLocalExported(k)


\* the values the export array gives a key: what follows key= in its strings
ArrayValues(k) ==
    {SubSeq(export_array[i], 3, Len(export_array[i])) :
        i \in {j \in 1..Len(export_array) : export_array[j][1] = k}}

\* the value as the array writes it
AsExported(k, v) ==
    IF variable_is_colon_delimited_array(k) THEN ReplaceSep(v) ELSE v

\* C34: after a rebuild the export array holds k=v, for a key that is not
\* electric, exactly when get(k, ENV_EXPORT) answers the value v.
C34_ArrayAgreesWithGet ==
    JustRebuilt =>
        \A k \in Keys \ env_electric :
            ArrayValues(k) =
                IF get(k, ENV_EXPORT).missing THEN {}
                ELSE {AsExported(k, get(k, ENV_EXPORT).val)}


\* C35: for every key that is not electric and every mode, exist(key, mode)
\* is true whenever get(key, mode) answers a value.
C35_ExistFollowsGet ==
    \A k \in Keys \ env_electric : \A mode \in Modes :
        ~get(k, mode).missing => exist(k, mode)


\* the mode looks in the global scope
PermitsGlobal(mode) ==
    \/ HasFlag(mode, ENV_GLOBAL)
    \/ ~(HasFlag(mode, ENV_LOCAL) \/ HasFlag(mode, ENV_UNIVERSAL))

\* the mode looks at variables that are not exported
PermitsUnexported(mode) ==
    HasFlag(mode, ENV_UNEXPORT) \/ ~HasFlag(mode, ENV_EXPORT)

\* C36: get of an electric variable answers missing for every mode that
\* leaves out the global scope or asks for exported variables alone.
C36_ElectricGet ==
    \A k \in Keys \cap env_electric : \A mode \in Modes :
        ~(PermitsGlobal(mode) /\ PermitsUnexported(mode))
            => get(k, mode).missing


\* the step is a call set(key, val, var_mode) that names no scope and
\* returns 0, for a key nothing holds
SetsUnheld(key, val, var_mode) ==
    /\ NoScopeFlag(var_mode)
    /\ ~is_electric(key)
    /\ Unheld(key)
    /\ env_last'.op = "set"
    /\ env_last'.returned
    /\ env_last'.ret = 0
    /\ set(key, val, var_mode)

C37_Step ==
    /\ \A val \in ExportVals : \A var_mode \in VarModes :
           SetsUnheld("foo", val, var_mode) =>
               /\ Len(nodes') = Len(nodes)
               /\ \A n \in 1..Len(nodes) :
                      nodes'[n].env =
                          IF n = ShadowingScope
                          THEN MapPut(nodes[n].env, "foo",
                                   [val |-> IF val = NullVal THEN ENV_NULL
                                            ELSE val,
                                    exportv |-> HasFlag(var_mode, ENV_EXPORT)])
                          ELSE nodes[n].env
               /\ uvars' = uvars
               /\ top' = top
    /\ (scope_snapshot'.phase = "popped" /\ env_last'.op = "pop") =>
           /\ get_node("foo")' # 0
           /\ get("foo", ENV_DEFAULT)' =
                  IF scope_snapshot'.saved = NullVal THEN missing_var
                  ELSE env_var(scope_snapshot'.saved)

SetsThrough(key, val, var_mode) ==
    /\ NoScopeFlag(var_mode)
    /\ ~is_electric(key)
    /\ get_node(key) = 0
    /\ ~uvars_get(key).missing
    /\ env_last'.op = "set"
    /\ env_last'.returned
    /\ env_last'.ret = 0
    /\ set(key, val, var_mode)

C38_Step ==
    \A val \in ExportVals : \A var_mode \in VarModes :
        SetsThrough("foo", val, var_mode) =>
            /\ uvars' = MapPut(uvars, "foo",
                   [val |-> IF val = NullVal THEN ENV_NULL ELSE val,
                    exportv |-> IF HasFlag(var_mode, ENV_EXPORT) THEN TRUE
                                ELSE IF HasFlag(var_mode, ENV_UNEXPORT)
                                THEN FALSE
                                ELSE uvars["foo"].exportv])
            /\ nodes' = nodes
            /\ top' = top
            /\ ~env_last'.fired

\* C38: set with no scope flag, for a key that no visible node holds and
\* the universal table does, writes the value to the universal variable,
\* keeps its export flag unless the mode gives one, writes no node and
\* fires no VARIABLE SET event.
C38_WritesThrough == [][C38_Step]_vars

\* such a set has changed the value of an exported universal variable and
\* left it exported
C38_Witness ==
    /\ scope_snapshot.phase = "through"
    /\ scope_snapshot.shadowed
    /\ scope_snapshot.saved = <<"b">>
    /\ env_last.op = "set"
    /\ uvars_get("foo") = env_var(<<"b">>)
    /\ uvars_get_export("foo")
    /\ get_node("foo") = 0


\* the block types push_block is called with: the two that are never
\* skipped, the two that always are, a loop and a function call
BlockTypes == {"TOP", "SUBST", "FAKE", "FUNCTION_DEF", "WHILE", "FUNCTION_CALL"}

\* a body pops the blocks it pushed and leaves the scope block of its
\* evaluation to eval_block_node
BodyMayPop ==
    IF eval_frames = <<>> THEN TRUE
    ELSE Len(block_stack) > eval_frames[Len(eval_frames)] + 1

\* the principal parser evaluates, pushes blocks of every type and pops them
NextBlocks ==
    \/ \E block_type \in EvalTypes : eval_block_node(block_type)
    \/ \E type \in BlockTypes : push_block(type)
    \/ BodyMayPop /\ pop_block
    \/ eval_block_node_returns
    \/ parser_call_returns

SpecBlocks == InitParser /\ [][NextBlocks]_vars

\* the step puts one block on the stack
PushesBlock == Len(block_stack') = Len(block_stack) + 1

C39_Step ==
    PushesBlock =>
        LET new == block_stack'[Len(block_stack')]
        IN  new.skip =
                IF new.type \in {"TOP", "SUBST"} THEN FALSE
                ELSE IF new.type \in {"FAKE", "FUNCTION_DEF"} THEN TRUE
                ELSE IF block_stack = <<>> THEN FALSE
                ELSE block_stack'[Len(block_stack)].skip

\* C39: the block push_block puts on the stack has its skip flag clear when
\* its type is TOP or SUBST, set when it is FAKE or FUNCTION_DEF, and
\* otherwise equal to that of the block that was current, clear when there
\* was none.
C39_SkipOnPush == [][C39_Step]_vars

\* a TOP block that is not skipped has been pushed on a loop block that
\* took the skip flag of the FAKE block below it
C39_Witness ==
    /\ parser_last.op = "push_block"
    /\ Len(block_stack) = 3
    /\ block_stack[1].type = "FAKE" /\ block_stack[1].skip
    /\ block_stack[2].type = "WHILE" /\ block_stack[2].skip
    /\ block_stack[3].type = "TOP" /\ ~block_stack[3].skip

\* the blocks of the stack that own a scope
Owning(blocks) ==
    Cardinality({i \in 1..Len(blocks) : blocks[i].wants_pop_env})

\* as many scopes above the global one as blocks that own a scope
C40_Counts == Len(nodes) - 1 = Owning(block_stack)

\* the first n blocks are the ones they were
SameBlocks(n) ==
    \A i \in 1..n :
        /\ block_stack'[i].type = block_stack[i].type
        /\ block_stack'[i].wants_pop_env = block_stack[i].wants_pop_env
        /\ block_stack'[i].env_before = block_stack[i].env_before

C40_Step ==
    /\ PushesBlock =>
           LET new == block_stack'[Len(block_stack')]
           IN  /\ new.wants_pop_env
                      = (new.type \notin {"FUNCTION_DEF", "FAKE", "TOP"})
               /\ IF new.type \notin {"FUNCTION_DEF", "FAKE", "TOP"}
                  THEN /\ nodes' = Append(nodes,
                              env_node_t(new.type = "FUNCTION_CALL", top))
                       /\ top' = Len(nodes')
                  ELSE nodes' = nodes /\ top' = top
    /\ (parser_last'.op = "pop_block" /\ block_stack # <<>>) =>
           LET old == block_stack[Len(block_stack)]
           IN  /\ Len(block_stack') = Len(block_stack) - 1
               /\ SameBlocks(Len(block_stack'))
               /\ IF old.wants_pop_env
                  THEN /\ nodes' = SubSeq(nodes, 1, Len(nodes) - 1)
                       /\ top' = nodes[top].next
                  ELSE nodes' = nodes /\ top' = top
               /\ top' = old.env_before
    /\ (parser_last'.op = "eval_block_node_returns"
           /\ parser_last'.thread = "main") =>
           LET depth == eval_frames[Len(eval_frames)]
           IN  /\ Len(block_stack') = depth
               /\ SameBlocks(depth)
               /\ top' = block_stack[depth + 1].env_before

\* C40: push_block pushes a scope exactly for the types other than
\* FUNCTION_DEF, FAKE and TOP, one that opens a scope for FUNCTION_CALL
\* alone; pop_block pops a scope exactly when the block owns one; there are
\* always as many pushed scopes as blocks that own one; and pop_block and
\* the return of eval_block_node leave the block below and the top of the
\* scope stack that were there before the push.
C40_ScopesFollowBlocks == []C40_Counts /\ [][C40_Step]_vars

\* an evaluation of a SUBST block inside a function call has returned: the
\* function call block is on top again, with its scope
C40_Witness ==
    /\ parser_last.op = "eval_block_node_returns"
    /\ Len(block_stack) = 2
    /\ block_stack[2].type = "FUNCTION_CALL"
    /\ top = 2
    /\ nodes[top].new_scope
    /\ Len(nodes) = 2

====
